---- MODULE Spec2Model ----
(***************************************************************************)
(* The stream ingestion and lifecycle orchestrator of the video            *)
(* aggregation service, for one camera (room):                             *)
(*   - RTSPPipeline (rtsp_pipeline.py): active_streams, ffmpeg_processes,  *)
(*     start_stream, stop_stream;                                          *)
(*   - start_device_stream / stop_device_stream (routes/devices.py);       *)
(*   - restart_stream_handler (stream_restart_handler.py);                 *)
(*   - StreamHealthMonitor (stream_health_monitor.py).                     *)
(*   - MediaSoupClient._send_request (mediasoup_client.py);                *)
(*   - the transcoders' source ports, the recordings and their retention   *)
(*     loop (rtsp_pipeline.py);                                            *)
(*   - attach_consumer (api/v2/consumers.py);                              *)
(*   - refresh and revocation of a refresh token (auth_service.py).        *)
(* The handlers are coroutines: a step of a flow is what runs between two  *)
(* suspension points (await), the awaited operation included.              *)
(***************************************************************************)
EXTENDS Integers, Sequences, FiniteSets, TLC

\* ------------------------------------------------------------------ bounds
\* transcoder processes and router transports that may ever be created
MaxSessions == 5
\* Producer rows the database may hold
MaxRows == 3
\* cap of a producer's packets_received
MaxPackets == 1
\* health-initiated restarts counted by the observer
MaxCallbacks == 4
\* user requests and restart callbacks started in one behaviour
MaxCalls == 3
\* producers of the room the router holds at once, under the monitor's loop
MaxLive == 2

\* user requests handled in one behaviour of the monitor's loop
MaxRuns == 2
\* calls of the monitor's start() and stop() in one behaviour
MaxMonitorCalls == 6
\* calls of the monitor's stop() under way at once
MaxStoppers == 2
\* calls of the SSRC capture in one behaviour
MaxCaptures == 2
\* coroutines that call the media router through the one MediaSoupClient
MaxCallers == 2
\* request frames sent to the media router
MaxRequests == 3
\* connections websockets.connect opens
MaxConnects == 2
\* cameras (stream ids) known to the pipeline
MaxCameras == 3
\* hash(stream_id) is sampled from 0..MaxHash, shifted by the size of the port
\* range and negated
MaxHash == 1
\* cameras that record
MaxDevices == 2
\* files written under the recording root
MaxSegments == 2
\* date directories under the recording root at once
MaxDirs == 2
\* the clock, in periods of the retention loop (6 hours)
MaxNow == 30
\* the last period in which a transcoder is started or stopped or a file is
\* written
MaxRecordTime == 4
\* size of the recordings' filesystem, in units of 5 % of it
DiskTotal == 20
\* attach_consumer requests
MaxAttach == 2
\* requests that may run refresh_access_token with the token at once
MaxRefreshers == 2
\* calls of refresh_access_token with the token
MaxRefresh == 3

\* ------------------------------------------------------- program constants
CheckInterval == 10
StaleThreshold == 3
RestartCooldown == 30
MaxRestartAttempts == 3
recording_retention_days == 7

\* ------------------------------------------------------------- vocabulary
Room == "cam1"
Flows == {"start", "stop", "restart"}
NoProc == 0
NoId == 0
\* Python's None where an integer SSRC is expected
NoneSsrc == -1
Ids == 1..MaxSessions

VARIABLES
  \* RTSPPipeline
  active_streams,     \* TRUE iff active_streams has an entry for the room
  ffmpeg_processes,   \* the process handle tracked for the room, or NoProc
  running,            \* transcoder processes of the room alive in the OS
  nextProc,
  \* the external media router
  router_transports,  \* open plain-RTP transports of the room
  router_producers,   \* producers the router lists for the room
  packets,            \* packets_received of each producer
  nextTransport,
  \* the database
  stream_state,       \* Stream.state of the camera's row, "NONE" without a row
  stream_metadata,    \* Stream.stream_metadata
  producer_rows,      \* the Producer rows of the stream, oldest first
  \* StreamHealthMonitor
  hm,                 \* the monitor's dictionaries
  unhealthy,          \* unhealthy_streams still to be handled by _check_health
  since_check,        \* seconds since the last health check, capped
  \* the flows
  pc, loc,
  \* observers
  calls,              \* requests and callbacks started so far
  snapshot,           \* <<the state a Start or Stop found when called, the flow>>
                      \* as long as no other flow and no transcoder made a step
  stops,              \* Stops in a row that ran alone and returned success
  since_callback,     \* seconds since the restart callback was last invoked
  last_gap,           \* seconds between the last two invocations of the callback
  callbacks,          \* restart callbacks invoked since the last success or request
  seen_packets,       \* packets_received of each producer in the statistics of
                      \* the previous health check
  stale_checks,       \* the health checks in a row, up to the previous one, that
                      \* found a known producer's packets_received not advanced
  \* MediaSoupClient
  connected,          \* self.connected
  websocket,          \* self.websocket: a connection of socks, or NoId for None
  socks,              \* the connections opened so far: open or closed, the request
                      \* frames the router has not answered, the reply frames
                      \* not yet read
  caller,             \* each caller's _send_request: where it is, the request it
                      \* sent, the connection it reads, the reply it got
  nextReq,
  \* the source ports of the transcoders
  str_hash,           \* hash() of each stream id in this interpreter, <<>> before
                      \* the interpreter has started
  ffmpeg_ports,       \* active_streams[stream_id]["ffmpeg_source_port"]
  \* the recordings and the retention loop
  now,                \* the clock, in periods of 6 hours since midnight of day 0
  since_pass,         \* periods slept since the last pass of the loop
  recordings,         \* /recordings/hot: <<device, name>> -> the entry there
  transcoder,         \* the date directory each running transcoder writes into
  disk_other,         \* space of the filesystem used by anything but recordings
  written,            \* files written so far
  rpc,                \* where the retention loop is
  target,             \* target_percent of the emergency cleanup under way
  device_dates,       \* its sorted list, what is left of it
  failed_dirs,        \* directories it could not size or delete
  emergency_deleted,  \* its deleted_count
  critical,           \* whether its final report was logged at critical
  freed_space,        \* freed_space of the last _cleanup_old_recordings
  cleanup_task,       \* RTSPPipeline.cleanup_task: NoId for None
  \* the audit trail of the Stream row
  audit_rows,         \* the audit entries committed: no handler adds one
  \* consumers
  attach,             \* the attach_consumer request under way: where it is, what
                      \* it read and created, its response
  attaches,           \* requests so far
  webrtc_transports,  \* WebRTC transports open in the router
  router_consumers,   \* consumers in the router
  consumer_rows,      \* Consumer rows committed
  \* AuthService, one refresh token
  token_record,       \* the RefreshToken row: is_revoked, expired
  client_active,      \* JWTToken.is_active of its client
  refresh,            \* each request's refresh_access_token: where it is, and
                      \* whether it was called after an exchange or a revocation
  revoke,             \* where revoke_refresh_token is
  refresh_calls,      \* calls of refresh_access_token so far
  exchanges,          \* calls of refresh_access_token that returned new tokens
  \* StreamHealthMonitor.start and stop
  monitor_running,    \* self._running
  monitor_task,       \* self._monitor_task: a task, or NoId for None
  loops,              \* the tasks whose _monitor_loop has not ended
  cancelled,          \* those of them with a cancellation under way
  stopper,            \* each call of stop(): where it is, the task it awaits
  monitor_calls,       \* calls of start() and stop() so far
  \* capture_rtp_ssrc and capture_ssrc_with_temp_ffmpeg
  capture,            \* the call: its function, its position, what recv gave
  sock,               \* sock / temp_socket: "none", "open", "bound", "closed"
  data,               \* the datagram recv returned, a sequence of bytes
  detected_ssrc,      \* the value returned, NoSsrc for None
  temp_process,       \* the temporary FFmpeg: "none", "running", "ended"
  captures            \* calls made so far

pipelineVars == <<active_streams, ffmpeg_processes, running, nextProc>>
routerVars == <<router_transports, router_producers, packets, nextTransport>>
dbVars == <<stream_state, stream_metadata, producer_rows>>
monitorVars == <<hm, unhealthy, since_check>>
flowVars == <<pc, loc>>
observerVars == <<since_callback, last_gap, callbacks>>
callVars == <<calls, snapshot, stops>>
channelVars == <<connected, websocket, socks, caller, nextReq>>
orchestratorVars ==
  <<pipelineVars, routerVars, dbVars, monitorVars, flowVars, observerVars, callVars>>
portVars == <<str_hash, ffmpeg_ports>>
retentionVars ==
  <<now, since_pass, recordings, transcoder, disk_other, written, rpc, target,
    device_dates, failed_dirs, emergency_deleted, critical, freed_space,
    cleanup_task>>
auditVars == <<audit_rows>>
consumerVars ==
  <<attach, attaches, webrtc_transports, router_consumers, consumer_rows>>
authVars ==
  <<token_record, client_active, refresh, revoke, refresh_calls, exchanges>>
serviceVars == <<portVars, retentionVars, auditVars, consumerVars, authVars>>
staleVars == <<seen_packets, stale_checks>>
loopVars == <<monitor_running, monitor_task, loops, cancelled, stopper, monitor_calls>>
ssrcVars == <<capture, sock, data, detected_ssrc, temp_process, captures>>
vars ==
  <<orchestratorVars, channelVars, serviceVars, staleVars, loopVars, ssrcVars>>

\* ------------------------------------------------------------ dictionaries
Has(d, k) == k \in DOMAIN d
Get(d, k, default) == IF k \in DOMAIN d THEN d[k] ELSE default
Put(d, k, v) == [x \in (DOMAIN d) \cup {k} |-> IF x = k THEN v ELSE d[x]]
Pop(d, k) == [x \in (DOMAIN d) \ {k} |-> d[x]]
EmptyDict == [x \in {} |-> 0]
Min(a, b) == IF a < b THEN a ELSE b
Max(S) == CHOOSE x \in S : \A y \in S : y <= x

\* ------------------------------------------------------------ the callers
Callers == 1..MaxCallers
\* a caller outside _send_request
\* no SSRC capture under way
NoCapture == [fn |-> "none", pc |-> "idle", bound |-> FALSE, outcome |-> "none"]
NoCall == [pc |-> "idle", req |-> NoId, sock |-> NoId, got |-> NoId]

\* ------------------------------------------------------------ flow locals
\* the ids a response of start_device_stream reports; NoId stands for "unknown"
NoResponse == [transport_id |-> NoId, producer |-> NoId]

NoLocals ==
  [was_active |-> FALSE, proc |-> NoProc, ssrc |-> 0, transport |-> NoId,
   producer |-> NoId, existing |-> NoId, stream_exists |-> FALSE,
   to_close |-> {}, response |-> NoResponse]

NoMetadata == [transport_id |-> NoId, producer_id |-> NoId, ssrc |-> 0]

Observed ==
  [active |-> active_streams, tracked |-> ffmpeg_processes, running |-> running,
   transports |-> router_transports, producers |-> router_producers,
   state |-> stream_state, metadata |-> stream_metadata, rows |-> producer_rows,
   monitor |-> hm]

\* the SSRC a transcoder process stamps on its RTP packets
SsrcOf(p) == p

\* ------------------------------------------------- StreamHealthMonitor
NewMonitor ==
  [last_packet_counts |-> EmptyDict, stale_counts |-> EmptyDict,
   restart_attempts |-> EmptyDict, last_restart_time |-> EmptyDict,
   failed_streams |-> {}]

register_stream(h, room, producer_id) ==
  [h EXCEPT !.last_packet_counts = Put(@, producer_id, 0),
            !.stale_counts = Put(@, producer_id, 0),
            !.restart_attempts = Put(@, room, 0),
            !.failed_streams = @ \ {room}]

\* called by stop_device_stream without a producer_id
unregister_stream(h, room) ==
  [h EXCEPT !.restart_attempts = Pop(@, room),
            !.last_restart_time = Pop(@, room),
            !.failed_streams = @ \ {room}]

mark_stream_healthy(h, room) ==
  [h EXCEPT !.restart_attempts = Put(@, room, 0),
            !.failed_streams = @ \ {room}]

\* ------------------------------------------------------------ the database
ActiveRows(rows) == {i \in DOMAIN rows : rows[i].state = "ACTIVE"}
OpenRows(rows) == {i \in DOMAIN rows : rows[i].state # "CLOSED"}
CloseRows(rows, idx) ==
  [i \in DOMAIN rows |-> IF i \in idx THEN [rows[i] EXCEPT !.state = "CLOSED"]
                                      ELSE rows[i]]
NewProducerRow(producer_id, ssrc) ==
  [pid |-> producer_id, ssrc |-> ssrc, state |-> "ACTIVE"]

\* an attach_consumer request that has not been made
NoAttach ==
  [pc |-> "idle", state |-> "NONE", producer |-> NoId, transport_id |-> NoId,
   consumer_id |-> NoId, status_code |-> 0, retry_after_seconds |-> 0]

\* ---------------------------------------------------------------- returns
Goto(f, label) == pc' = [pc EXCEPT ![f] = label]

\* the handler returns: its response (or the callback's value) is under way
Returned == {"success", "reconnect", "error", "cancelled", "true", "false"}

Return(f, res) ==
  /\ pc' = [pc EXCEPT ![f] = res]
  /\ loc' = [loc EXCEPT ![f] = NoLocals]

\* start_device_stream returns a response with "transport_id" and
\* "producers": {"video": ...}
Reply(f, res, transport_id, producer) ==
  /\ pc' = [pc EXCEPT ![f] = res]
  /\ loc' = [loc EXCEPT ![f] =
               [NoLocals EXCEPT !.response = [transport_id |-> transport_id,
                                              producer |-> producer]]]

\* the reconnect response: "transport_id" is stream_info.get("transport_id",
\* "unknown") and the registry entry has no such key; the producer is
\* existing_producers[-1]
ReconnectReply == Reply("start", "reconnect", NoId, loc["start"].existing)

\* an exception that leaves the handler: start_device_stream and
\* stop_device_stream raise an HTTPException, restart_stream_handler returns False
Failure(f) == Return(f, IF f = "restart" THEN "false" ELSE "error")

\* ------------------------------------------------ RTSPPipeline.stop_stream
\* stop_stream deleting the entry without `if was_active`: a KeyError for a
\* room that has none
stop_stream_del_unguarded(f, was) ==
  IF ~active_streams
  THEN /\ UNCHANGED active_streams
       /\ Failure(f)
  ELSE /\ active_streams' = FALSE
       /\ Goto(f, "ss_get")
       /\ loc' = [loc EXCEPT ![f] = NoLocals]

\* `if was_active: del self.active_streams[stream_id]`, then get_producers is awaited
stop_stream_del(f, was) ==
  IF was /\ ~active_streams
  THEN /\ UNCHANGED active_streams
       /\ Failure(f)
  ELSE /\ active_streams' = (IF was THEN FALSE ELSE active_streams)
       /\ Goto(f, "ss_get")
       /\ loc' = [loc EXCEPT ![f] = NoLocals]

\* pgrep -f ffmpeg.*<stream_id>, SIGTERM to each, sleep if any was found
stop_stream_orphans(f, was, alive, tracked) ==
  /\ ffmpeg_processes' = tracked
  /\ UNCHANGED nextProc
  /\ IF alive # {}
     THEN /\ running' = {}
          /\ UNCHANGED active_streams
          /\ Goto(f, "ss_sleep")
          /\ loc' = [loc EXCEPT ![f].was_active = was, ![f].proc = NoProc]
     ELSE /\ running' = alive
          /\ stop_stream_del(f, was)

\* the call of stop_stream, up to its first suspension
stop_stream_call(f) ==
  IF ffmpeg_processes # NoProc
  THEN /\ Goto(f, "ss_wait")
       /\ loc' = [loc EXCEPT ![f].was_active = active_streams,
                             ![f].proc = ffmpeg_processes]
       /\ UNCHANGED pipelineVars
  ELSE stop_stream_orphans(f, active_streams, running, ffmpeg_processes)

\* process.wait() is over; finally: del self.ffmpeg_processes[stream_id]
StopStreamWait(f) ==
  /\ pc[f] = "ss_wait"
  /\ IF ffmpeg_processes = NoProc
     THEN /\ running' = running \ {loc[f].proc}
          /\ UNCHANGED <<active_streams, ffmpeg_processes, nextProc>>
          /\ Failure(f)
     ELSE stop_stream_orphans(f, loc[f].was_active, running \ {loc[f].proc}, NoProc)
  /\ UNCHANGED <<routerVars, dbVars, monitorVars, observerVars>>

StopStreamSleep(f) ==
  /\ pc[f] = "ss_sleep"
  /\ stop_stream_del(f, loc[f].was_active)
  /\ UNCHANGED <<ffmpeg_processes, running, nextProc>>
  /\ UNCHANGED <<routerVars, dbVars, monitorVars, observerVars>>

\* where a flow goes on after stop_stream returned
AfterStopStream(f) ==
  CASE f = "start" -> "orphans"
    [] f = "stop" -> "db_read"
    [] f = "restart" -> "close_transports"

\* get_producers and close_producer of each; every failure is logged and skipped.
\* stop_device_stream then unregisters the room from the health monitor.
StopStreamCleanup(f) ==
  /\ pc[f] = "ss_get"
  /\ \E closed \in SUBSET router_producers :
       router_producers' = router_producers \ closed
  /\ hm' = IF f = "stop" THEN unregister_stream(hm, Room) ELSE hm
  /\ Goto(f, AfterStopStream(f))
  /\ UNCHANGED <<loc, router_transports, packets, nextTransport>>
  /\ UNCHANGED <<pipelineVars, dbVars, unhealthy, since_check, observerVars>>

\* ------------------------------------------------------ the media router
\* close_transports_for_room: the router closes the room's transports, or the
\* request fails (the callers log the failure and go on)
CloseTransportsForRoom ==
  \/ router_transports' = {}
  \/ UNCHANGED router_transports

\* what capture_ssrc reads from the first RTP packet on the port, 0 on a timeout
CaptureResults(alive) == {0} \cup {SsrcOf(q) : q \in alive}

\* -------------------------------------- the steps Start and Restart share
\* RTSPPipeline.start_stream up to `await asyncio.sleep(0.5)`
Spawn(f) ==
  /\ pc[f] = "spawn"
  /\ IF active_streams
     THEN \* "already running": the registry entry is returned
          /\ \E s \in CaptureResults(running) :
               loc' = [loc EXCEPT ![f].ssrc = s]
          /\ Goto(f, "transport")
          /\ UNCHANGED pipelineVars
     ELSE \/ /\ nextProc <= MaxSessions
             /\ running' = running \cup {nextProc}
             /\ ffmpeg_processes' = nextProc
             /\ nextProc' = nextProc + 1
             /\ loc' = [loc EXCEPT ![f].proc = nextProc]
             /\ Goto(f, "ffmpeg_init")
             /\ UNCHANGED active_streams
          \/ \* create_subprocess_exec raises: status "error"
             /\ Failure(f)
             /\ UNCHANGED pipelineVars
  /\ UNCHANGED <<routerVars, dbVars, monitorVars, observerVars>>

\* start_stream after the sleep: the returncode check, the registry entry;
\* asyncio.gather then yields the captured SSRC
FfmpegInit(f) ==
  /\ pc[f] = "ffmpeg_init"
  /\ IF loc[f].proc \notin running
     THEN /\ Failure(f)
          /\ UNCHANGED active_streams
     ELSE /\ active_streams' = TRUE
          /\ \E s \in CaptureResults(running) :
               loc' = [loc EXCEPT ![f].ssrc = s]
          /\ Goto(f, "transport")
  /\ UNCHANGED <<ffmpeg_processes, running, nextProc>>
  /\ UNCHANGED <<routerVars, dbVars, monitorVars, observerVars>>

\* the transport connected as soon as it is created, the producer after it
CreateTransportThenConnect(f) ==
  /\ pc[f] = "transport"
  /\ \/ /\ nextTransport <= MaxSessions
        /\ router_transports' = router_transports \cup {nextTransport}
        /\ nextTransport' = nextTransport + 1
        /\ loc' = [loc EXCEPT ![f].transport = nextTransport]
        /\ Goto(f, "connect")
     \/ /\ Failure(f)
        /\ UNCHANGED <<router_transports, nextTransport>>
  /\ UNCHANGED <<router_producers, packets>>
  /\ UNCHANGED <<pipelineVars, dbVars, monitorVars, observerVars>>

CreateTransport(f) ==
  /\ pc[f] = "transport"
  /\ \/ /\ nextTransport <= MaxSessions
        /\ router_transports' = router_transports \cup {nextTransport}
        /\ nextTransport' = nextTransport + 1
        /\ loc' = [loc EXCEPT ![f].transport = nextTransport]
        /\ Goto(f, IF f = "start" THEN "old_producers" ELSE "producer")
     \/ /\ Failure(f)
        /\ UNCHANGED <<router_transports, nextTransport>>
  /\ UNCHANGED <<router_producers, packets>>
  /\ UNCHANGED <<pipelineVars, dbVars, monitorVars, observerVars>>

\* the router names the producer of a transport after the transport
CreateProducer(f) ==
  /\ pc[f] = "producer"
  /\ \/ /\ loc[f].transport \in router_transports
        /\ router_producers' = router_producers \cup {loc[f].transport}
        /\ packets' = [packets EXCEPT ![loc[f].transport] = 0]
        /\ loc' = [loc EXCEPT ![f].producer = loc[f].transport]
        /\ Goto(f, "connect")
     \/ /\ Failure(f)
        /\ UNCHANGED <<router_producers, packets>>
  /\ UNCHANGED <<router_transports, nextTransport>>
  /\ UNCHANGED <<pipelineVars, dbVars, monitorVars, observerVars>>

ConnectTransport(f) ==
  /\ pc[f] = "connect"
  /\ \/ /\ loc[f].transport \in router_transports
        /\ Goto(f, "ready")
        /\ UNCHANGED loc
     \/ Failure(f)
  /\ UNCHANGED <<pipelineVars, routerVars, dbVars, monitorVars, observerVars>>

\* wait_for_producer_ready: TRUE iff packets_received of the producer gets
\* positive before the timeout
ProducerReady(f, ready) ==
  IF ready
  THEN /\ loc[f].producer \in router_producers
       /\ running # {}
       /\ packets' = [packets EXCEPT ![loc[f].producer] = IF @ = 0 THEN 1 ELSE @]
  ELSE /\ packets[loc[f].producer] = 0
       /\ UNCHANGED packets

\* --------------------------------------------------- start_device_stream
StartBegin ==
  /\ pc["start"] = "idle"
  /\ Goto("start", IF active_streams THEN "rc_get" ELSE "orphans")
  /\ UNCHANGED <<loc, pipelineVars, routerVars, dbVars, monitorVars, observerVars>>

\* the registry has an entry: get_producers
StartReconnectGet ==
  /\ pc["start"] = "rc_get"
  /\ \/ \* the request fails: "will restart stream", stop_stream
        stop_stream_call("start")
     \/ /\ router_producers = {}
        /\ Goto("start", "orphans")
        /\ UNCHANGED <<loc, pipelineVars>>
     \/ /\ router_producers # {}
        /\ Goto("start", "rc_read")
        /\ loc' = [loc EXCEPT !["start"].existing = Max(router_producers)]
        /\ UNCHANGED pipelineVars
  /\ UNCHANGED <<routerVars, dbVars, monitorVars, observerVars>>

\* the Stream row and its ACTIVE Producer row are selected
StartReconnectRead ==
  /\ pc["start"] = "rc_read"
  /\ IF stream_state = "NONE"
     THEN ReconnectReply /\ UNCHANGED pipelineVars
     ELSE IF Cardinality(ActiveRows(producer_rows)) > 1
     THEN \* scalar_one_or_none raises
          stop_stream_call("start")
     ELSE IF ActiveRows(producer_rows) = {}
     THEN Goto("start", "rc_commit") /\ UNCHANGED <<loc, pipelineVars>>
     ELSE ReconnectReply /\ UNCHANGED pipelineVars
  /\ UNCHANGED <<routerVars, dbVars, monitorVars, observerVars>>

\* "Creating missing Producer record": ssrc is stream_info.get("ssrc", 0), and
\* the registry entry holds "ssrc": None
StartReconnectCommit ==
  /\ pc["start"] = "rc_commit"
  /\ \/ /\ Len(producer_rows) < MaxRows
        /\ producer_rows' =
             Append(producer_rows, NewProducerRow(loc["start"].existing, NoneSsrc))
        /\ ReconnectReply
        /\ UNCHANGED pipelineVars
     \/ \* the commit fails
        /\ stop_stream_call("start")
        /\ UNCHANGED producer_rows
  /\ UNCHANGED <<stream_state, stream_metadata>>
  /\ UNCHANGED <<routerVars, monitorVars, observerVars>>

\* orphaned transcoders of the RTSP URL are killed, old transports closed
StartOrphans ==
  /\ pc["start"] = "orphans"
  /\ running' = {}
  /\ CloseTransportsForRoom
  /\ Goto("start", "spawn")
  /\ UNCHANGED <<active_streams, ffmpeg_processes, nextProc>>
  /\ UNCHANGED <<router_producers, packets, nextTransport, loc>>
  /\ UNCHANGED <<dbVars, monitorVars, observerVars>>

\* "Close any old producers for this room"; failures are logged and skipped
StartCloseOld ==
  /\ pc["start"] = "old_producers"
  /\ \E closed \in SUBSET router_producers :
       router_producers' = router_producers \ closed
  /\ Goto("start", "producer")
  /\ UNCHANGED <<router_transports, packets, nextTransport, loc>>
  /\ UNCHANGED <<pipelineVars, dbVars, monitorVars, observerVars>>

\* a Start that answers HTTP 500 when the producer is not ready in time
StartWaitReadyOrFail ==
  /\ pc["start"] = "ready"
  /\ \E ready \in BOOLEAN :
       /\ ProducerReady("start", ready)
       /\ IF ready THEN Goto("start", "db_read") /\ UNCHANGED loc
                   ELSE Failure("start")
  /\ UNCHANGED <<router_transports, router_producers, nextTransport>>
  /\ UNCHANGED <<pipelineVars, dbVars, monitorVars, observerVars>>

StartWaitReady ==
  /\ pc["start"] = "ready"
  /\ \E ready \in BOOLEAN : ProducerReady("start", ready)
  /\ Goto("start", "db_read")
  /\ UNCHANGED <<router_transports, router_producers, nextTransport, loc>>
  /\ UNCHANGED <<pipelineVars, dbVars, monitorVars, observerVars>>

\* the Stream row and its Producer rows that are not CLOSED are selected
StartDbRead ==
  /\ pc["start"] = "db_read"
  /\ loc' = [loc EXCEPT !["start"].stream_exists = (stream_state # "NONE"),
                        !["start"].to_close = OpenRows(producer_rows)]
  /\ Goto("start", "commit")
  /\ UNCHANGED <<pipelineVars, routerVars, dbVars, monitorVars, observerVars>>

\* db.commit(), then register_stream and the success response
StartCommit ==
  /\ pc["start"] = "commit"
  /\ \/ /\ Len(producer_rows) < MaxRows
        /\ stream_state' = "LIVE"
        /\ stream_metadata' = [transport_id |-> loc["start"].transport,
                               producer_id |-> loc["start"].producer,
                               ssrc |-> loc["start"].ssrc]
        /\ producer_rows' =
             Append(CloseRows(producer_rows, loc["start"].to_close),
                    NewProducerRow(loc["start"].producer, loc["start"].ssrc))
        /\ hm' = register_stream(hm, Room, loc["start"].producer)
        /\ Reply("start", "success", loc["start"].transport, loc["start"].producer)
     \/ /\ Failure("start")
        /\ UNCHANGED <<dbVars, hm>>
  /\ UNCHANGED <<unhealthy, since_check, observerVars>>
  /\ UNCHANGED <<pipelineVars, routerVars>>

\* the request is cancelled at a suspension point: CancelledError is no
\* Exception, so no handler of start_device_stream catches it; inside
\* stop_stream's process.wait() the finally clause still runs
StartCancel ==
  /\ pc["start"] \notin {"idle"} \cup Returned
  /\ IF pc["start"] = "ss_wait"
     THEN /\ running' = running \ {loc["start"].proc}
          /\ ffmpeg_processes' = NoProc
     ELSE UNCHANGED <<running, ffmpeg_processes>>
  /\ Return("start", "cancelled")
  /\ UNCHANGED <<active_streams, nextProc>>
  /\ UNCHANGED <<routerVars, dbVars, monitorVars, observerVars>>

\* ---------------------------------------------------- stop_device_stream
StopBegin ==
  /\ pc["stop"] = "idle"
  /\ stop_stream_call("stop")
  /\ UNCHANGED <<routerVars, dbVars, monitorVars, observerVars>>

StopDbRead ==
  /\ pc["stop"] = "db_read"
  /\ loc' = [loc EXCEPT !["stop"].stream_exists = (stream_state # "NONE"),
                        !["stop"].to_close = OpenRows(producer_rows)]
  /\ Goto("stop", "commit")
  /\ UNCHANGED <<pipelineVars, routerVars, dbVars, monitorVars, observerVars>>

StopCommit ==
  /\ pc["stop"] = "commit"
  /\ \/ /\ IF loc["stop"].stream_exists
           THEN /\ stream_state' = "STOPPED"
                /\ producer_rows' = CloseRows(producer_rows, loc["stop"].to_close)
           ELSE UNCHANGED <<stream_state, producer_rows>>
        /\ Return("stop", "success")
     \/ /\ Failure("stop")
        /\ UNCHANGED <<stream_state, producer_rows>>
  /\ UNCHANGED <<stream_metadata, pipelineVars, routerVars, monitorVars, observerVars>>

\* ------------------------------------------------ restart_stream_handler
\* the callback is invoked: stop_stream first
restart_stream_handler ==
  /\ pc["restart"] = "idle"
  /\ stop_stream_call("restart")

RestartCloseTransports ==
  /\ pc["restart"] = "close_transports"
  /\ CloseTransportsForRoom
  /\ Goto("restart", "spawn")
  /\ UNCHANGED <<router_producers, packets, nextTransport, loc>>
  /\ UNCHANGED <<pipelineVars, dbVars, monitorVars, observerVars>>

RestartWaitReady ==
  /\ pc["restart"] = "ready"
  /\ \E ready \in BOOLEAN :
       /\ ProducerReady("restart", ready)
       /\ IF ready
          THEN /\ hm' = mark_stream_healthy(
                          register_stream(hm, Room, loc["restart"].producer), Room)
               /\ Goto("restart", "db_read")
               /\ UNCHANGED loc
          ELSE /\ hm' = register_stream(hm, Room, loc["restart"].producer)
               /\ Return("restart", "true")
  /\ UNCHANGED <<router_transports, router_producers, nextTransport>>
  /\ UNCHANGED <<unhealthy, since_check, observerVars>>
  /\ UNCHANGED <<pipelineVars, dbVars>>

\* _update_stream_records: the selects
RestartDbRead ==
  /\ pc["restart"] = "db_read"
  /\ IF stream_state = "NONE"
     THEN Return("restart", "true")
     ELSE /\ loc' = [loc EXCEPT !["restart"].stream_exists = TRUE,
                                !["restart"].to_close = OpenRows(producer_rows)]
          /\ Goto("restart", "commit")
  /\ UNCHANGED <<pipelineVars, routerVars, dbVars, monitorVars, observerVars>>

\* _update_stream_records: the commit; an exception is logged, True is returned
RestartCommit ==
  /\ pc["restart"] = "commit"
  /\ \/ /\ Len(producer_rows) < MaxRows
        /\ stream_state' = "LIVE"
        /\ stream_metadata' = [transport_id |-> loc["restart"].transport,
                               producer_id |-> loc["restart"].producer,
                               ssrc |-> loc["restart"].ssrc]
        /\ producer_rows' =
             Append(CloseRows(producer_rows, loc["restart"].to_close),
                    NewProducerRow(loc["restart"].producer, loc["restart"].ssrc))
     \/ UNCHANGED dbVars
  /\ Return("restart", "true")
  /\ UNCHANGED <<pipelineVars, routerVars, monitorVars, observerVars>>


\* the response leaves (the callback's value reaches the monitor)
Respond(f) ==
  /\ pc[f] \in Returned
  /\ Goto(f, "idle")
  /\ loc' = [loc EXCEPT ![f] = NoLocals]
  /\ UNCHANGED <<pipelineVars, routerVars, dbVars, monitorVars, observerVars>>

\* ----------------------------------------------------- the environment
\* a transcoder exits on its own (the RTSP source is lost, the output fails)
ProcessExit ==
  /\ \E p \in running : running' = running \ {p}
  /\ UNCHANGED <<active_streams, ffmpeg_processes, nextProc>>
  /\ UNCHANGED <<routerVars, dbVars, monitorVars, flowVars, observerVars>>

\* the monitor invokes its callback for a room that has a producer; which
\* check found it stale, and when, is left open
RestartCallback ==
  /\ router_producers # {}
  /\ restart_stream_handler
  /\ UNCHANGED <<routerVars, dbVars, monitorVars, observerVars>>

\* ------------------------------------------------------------------ Init
Init ==
  /\ active_streams = FALSE
  /\ ffmpeg_processes = NoProc
  /\ running = {}
  /\ nextProc = 1
  /\ router_transports = {}
  /\ router_producers = {}
  /\ packets = [p \in Ids |-> 0]
  /\ nextTransport = 1
  /\ stream_state = "NONE"
  /\ stream_metadata = NoMetadata
  /\ producer_rows = <<>>
  /\ hm = NewMonitor
  /\ unhealthy = <<>>
  /\ since_check = 0
  /\ pc = [f \in Flows |-> "idle"]
  /\ loc = [f \in Flows |-> NoLocals]
  /\ calls = 0
  /\ snapshot = <<>>
  /\ stops = 0
  /\ since_callback = RestartCooldown
  /\ last_gap = RestartCooldown
  /\ callbacks = 0
  /\ seen_packets = EmptyDict
  /\ stale_checks = EmptyDict
  /\ connected = FALSE
  /\ websocket = NoId
  /\ socks = <<>>
  /\ caller = [c \in Callers |-> NoCall]
  /\ nextReq = 1
  /\ str_hash = <<>>
  /\ ffmpeg_ports = <<>>
  /\ now = 0
  /\ since_pass = 0
  /\ recordings = <<>>
  /\ transcoder = <<>>
  /\ disk_other = 0
  /\ written = 0
  /\ rpc = "sleep"
  /\ target = 0
  /\ device_dates = <<>>
  /\ failed_dirs = {}
  /\ emergency_deleted = 0
  /\ critical = FALSE
  /\ freed_space = 0
  /\ cleanup_task = NoId
  /\ audit_rows = <<>>
  /\ attach = NoAttach
  /\ attaches = 0
  /\ webrtc_transports = {}
  /\ router_consumers = {}
  /\ consumer_rows = <<>>
  /\ token_record = [is_revoked |-> FALSE, expired |-> FALSE]
  /\ client_active = TRUE
  /\ refresh = [r \in 1..MaxRefreshers |-> [pc |-> "idle", late |-> FALSE]]
  /\ revoke = "idle"
  /\ refresh_calls = 0
  /\ exchanges = 0
  /\ monitor_running = FALSE
  /\ monitor_task = NoId
  /\ loops = {}
  /\ cancelled = {}
  /\ stopper = [c \in 1..MaxStoppers |-> [pc |-> "idle", task |-> NoId]]
  /\ monitor_calls = 0
  /\ capture = NoCapture
  /\ sock = "none"
  /\ data = <<>>
  /\ detected_ssrc = <<>>
  /\ temp_process = "none"
  /\ captures = 0

\* the steps of a start_device_stream under way
StartStep ==
  \/ StopStreamWait("start")
  \/ StopStreamSleep("start")
  \/ StopStreamCleanup("start")
  \/ Spawn("start")
  \/ FfmpegInit("start")
  \/ CreateTransport("start")
  \/ CreateProducer("start")
  \/ ConnectTransport("start")
  \/ StartReconnectGet
  \/ StartReconnectRead
  \/ StartReconnectCommit
  \/ StartOrphans
  \/ StartCloseOld
  \/ StartWaitReady
  \/ StartDbRead
  \/ StartCommit
  \/ StartCancel

\* the steps of a stop_device_stream under way
StopStep ==
  \/ StopStreamWait("stop")
  \/ StopStreamSleep("stop")
  \/ StopStreamCleanup("stop")
  \/ StopDbRead
  \/ StopCommit
  \/ Respond("stop")

\* the steps of a restart_stream_handler under way
RestartStep ==
  \/ StopStreamWait("restart")
  \/ StopStreamSleep("restart")
  \/ StopStreamCleanup("restart")
  \/ Spawn("restart")
  \/ FfmpegInit("restart")
  \/ CreateTransport("restart")
  \/ CreateProducer("restart")
  \/ ConnectTransport("restart")
  \/ RestartCloseTransports
  \/ RestartWaitReady
  \/ RestartDbRead
  \/ RestartCommit
  \/ Respond("restart")

\* flow f has run alone since it was called
Alone(f) == snapshot # <<>> /\ snapshot[2] = f
Kept(f) == IF Alone(f) THEN snapshot ELSE <<>>

\* stops after a step of Stop, which ran alone or not
StopsAfter(alone) ==
  IF pc["stop"] \notin Returned /\ pc'["stop"] \in Returned
  THEN IF alone /\ pc'["stop"] = "success" THEN stops + 1 ELSE 0
  ELSE stops

\* requests and the restart callback arrive at any time, the handlers take no
\* lock
NextFlows ==
  \/ /\ calls < MaxCalls
     /\ calls' = calls + 1
     /\ \/ StartBegin /\ snapshot' = <<Observed, "start">> /\ stops' = 0
        \/ StopBegin /\ snapshot' = <<Observed, "stop">> /\ stops' = StopsAfter(TRUE)
        \/ RestartCallback /\ snapshot' = <<>> /\ stops' = 0
  \/ StartStep /\ snapshot' = Kept("start") /\ stops' = 0 /\ UNCHANGED calls
  \/ Respond("start") /\ snapshot' = <<>> /\ stops' = 0 /\ UNCHANGED calls
  \/ /\ StopStep
     /\ snapshot' = IF pc'["stop"] = "idle" THEN <<>> ELSE Kept("stop")
     /\ stops' = StopsAfter(Alone("stop"))
     /\ UNCHANGED calls
  \/ (RestartStep \/ ProcessExit) /\ snapshot' = <<>> /\ stops' = 0 /\ UNCHANGED calls

Next == NextFlows /\ UNCHANGED <<channelVars, serviceVars, staleVars, loopVars,
                   ssrcVars>>

Spec == Init /\ [][Next]_vars

\* ------------------------------------------------- the monitor's loop
\* SpecMonitor follows StreamHealthMonitor through its checks, with the calls
\* the handlers make to it and what the handlers do to the router's producers
\* of the room; a handler runs to its end between two steps of the monitor.
\* Of _last_packet_counts and _stale_counts it keeps the entries of the
\* producers the router still lists: _check_health reads an entry only for a
\* producer in the router's statistics, and the router never reuses an id.

\* RTP reaches a producer
PacketsArrive ==
  /\ \E p \in router_producers :
       /\ packets[p] < MaxPackets
       /\ packets' = [packets EXCEPT ![p] = @ + 1]
  /\ UNCHANGED <<router_transports, router_producers, nextTransport>>
  /\ UNCHANGED <<pipelineVars, dbVars, monitorVars, flowVars, observerVars, callVars>>

\* the clock advances by one check interval, the monitor's sleep
TimeStep == CheckInterval
Aged(d) == [k \in DOMAIN d |-> Min(d[k] + TimeStep, RestartCooldown)]

Tick ==
  /\ unhealthy = <<>>
  /\ since_check < CheckInterval
  /\ since_check' = Min(since_check + TimeStep, CheckInterval)
  /\ since_callback' = Min(since_callback + TimeStep, RestartCooldown)
  /\ hm' = [hm EXCEPT !.last_restart_time = Aged(@)]
  /\ UNCHANGED <<unhealthy, callbacks, last_gap>>
  /\ UNCHANGED <<pipelineVars, routerVars, dbVars, flowVars, callVars>>

\* the body of `for stat in stats_list` for one producer of the room;
\* st = [h: the monitor, unhealthy: unhealthy_streams, advanced: packets were
\* seen to advance]
CheckProducer(st, p) ==
  LET h == st.h IN
  IF Room \in h.failed_streams THEN st
  ELSE IF ~Has(h.last_packet_counts, p)
  THEN [st EXCEPT !.h.last_packet_counts = Put(@, p, packets[p]),
                  !.h.stale_counts = Put(@, p, 0)]
  ELSE IF packets[p] > h.last_packet_counts[p]
  THEN [st EXCEPT !.h.last_packet_counts = Put(@, p, packets[p]),
                  !.h.stale_counts = Put(@, p, 0),
                  !.h.restart_attempts =
                     IF Get(@, Room, 0) > 0 THEN Put(@, Room, 0) ELSE @,
                  !.advanced = TRUE]
  ELSE LET stale_count == Get(h.stale_counts, p, 0) + 1 IN
       [st EXCEPT !.h.stale_counts = Put(@, p, stale_count),
                  !.unhealthy = IF stale_count >= StaleThreshold
                                THEN Append(@, p) ELSE @]

RECURSIVE CheckProducers(_, _)
CheckProducers(st, todo) ==
  IF todo = {} THEN st
  ELSE LET p == CHOOSE x \in todo : \A y \in todo : x <= y
       IN CheckProducers(CheckProducer(st, p), todo \ {p})

\* _check_health with the statistics of the room's producers, up to the
\* handling of the unhealthy streams
CheckHealth ==
  LET st == CheckProducers([h |-> hm, unhealthy |-> <<>>, advanced |-> FALSE],
                           router_producers)
  IN /\ hm' = st.h
     /\ unhealthy' = st.unhealthy
     /\ callbacks' = IF st.advanced THEN 0 ELSE callbacks

\* one pass of _check_health, up to the handling of the unhealthy streams
HealthCheck ==
  /\ unhealthy = <<>>
  /\ since_check >= CheckInterval
  /\ since_check' = 0
  /\ \/ CheckHealth
     \/ \* get_all_producer_stats fails: "Error checking health"
        UNCHANGED <<hm, unhealthy, callbacks>>
  /\ UNCHANGED <<since_callback, last_gap>>
  /\ UNCHANGED <<pipelineVars, routerVars, dbVars, flowVars, callVars>>

\* the router keeps no statistics of a producer it closed
Forgotten(closed) == [p \in Ids |-> IF p \in closed THEN 0 ELSE packets[p]]

Restrict(d, keys) == [k \in (DOMAIN d) \cap keys |-> d[k]]
Tracked(h, producers) ==
  [h EXCEPT !.last_packet_counts = Restrict(@, producers),
            !.stale_counts = Restrict(@, producers)]

\* how far a run of start_device_stream or restart_stream_handler gets
Outcomes == {"failed", "unregistered", "not_ready", "ready"}

\* the router's producers of the room after a run that closed `closed` of them
\* (a close_producer that fails is logged and skipped) and got as far as outcome
RouterAfterRun(closed, outcome) ==
  IF outcome = "failed"
  THEN /\ router_producers' = router_producers \ closed
       /\ packets' = Forgotten(closed)
       /\ UNCHANGED nextTransport
  ELSE /\ nextTransport <= MaxSessions
       /\ Cardinality(router_producers \ closed) < MaxLive
       /\ router_producers' = (router_producers \ closed) \cup {nextTransport}
       /\ nextTransport' = nextTransport + 1
       /\ packets' = [Forgotten(closed) EXCEPT
                        ![nextTransport] = IF outcome = "ready" THEN 1 ELSE 0]

\* active_streams after such a run: start_stream has put the room's entry
\* there unless the run failed, and a run that failed did so before
\* start_stream (with the entry it found, or after stop_stream deleted it) or
\* after it
RegistryAfterRun(outcome) ==
  IF outcome = "failed"
  THEN \E entry \in BOOLEAN : active_streams' = entry
  ELSE active_streams' = TRUE

\* restart_stream_handler as the monitor sees it: no register_stream when it
\* returns False, register_stream when the producer is not ready in time,
\* register_stream and mark_stream_healthy when it is
RestartRun(h, outcome) ==
  CASE outcome = "ready" -> mark_stream_healthy(register_stream(h, Room, nextTransport), Room)
    [] outcome = "not_ready" -> register_stream(h, Room, nextTransport)
    [] OTHER -> h

\* _handle_unhealthy_stream for the next unhealthy producer, the awaited
\* restart callback included
HandleUnhealthy ==
  /\ unhealthy # <<>>
  /\ unhealthy' = Tail(unhealthy)
  /\ LET producer_id == Head(unhealthy)
         attempts == Get(hm.restart_attempts, Room, 0)
     IN IF Has(hm.last_restart_time, Room)
           /\ hm.last_restart_time[Room] < RestartCooldown
        THEN \* on cooldown
             UNCHANGED <<hm, observerVars, router_producers, packets, nextTransport,
                         active_streams>>
        ELSE IF attempts >= MaxRestartAttempts
        THEN /\ hm' = [hm EXCEPT !.failed_streams = @ \cup {Room}]
             /\ UNCHANGED <<observerVars, router_producers, packets, nextTransport,
                            active_streams>>
        ELSE \E closed \in SUBSET router_producers, outcome \in Outcomes :
               /\ RouterAfterRun(closed, outcome)
               /\ RegistryAfterRun(outcome)
               /\ hm' = Tracked(RestartRun(
                          [hm EXCEPT !.restart_attempts = Put(@, Room, attempts + 1),
                                     !.last_restart_time = Put(@, Room, 0),
                                     !.stale_counts = Put(@, producer_id, 0),
                                     !.last_packet_counts = Pop(@, producer_id)],
                          outcome), router_producers')
               /\ callbacks' = IF outcome = "ready" THEN 0
                               ELSE Min(callbacks + 1, MaxCallbacks)
               /\ since_callback' = 0
               /\ last_gap' = since_callback
  /\ UNCHANGED <<since_check, router_transports>>
  /\ UNCHANGED <<ffmpeg_processes, running, nextProc, dbVars, flowVars, callVars>>

\* a run of start_device_stream's full sequence: the old producers are closed,
\* a producer is created, register_stream is called once the rows are committed
StartRun ==
  /\ calls < MaxRuns
  /\ calls' = calls + 1
  /\ \E closed \in SUBSET router_producers,
        outcome \in {"failed", "unregistered", "ready", "not_ready"} :
       /\ RouterAfterRun(closed, outcome)
       /\ hm' = Tracked(IF outcome \in {"ready", "not_ready"}
                        THEN register_stream(hm, Room, nextTransport) ELSE hm,
                        router_producers')
       /\ callbacks' = IF outcome \in {"ready", "not_ready"} THEN 0 ELSE callbacks
       /\ RegistryAfterRun(outcome)
       /\ pc' = [pc EXCEPT !["start"] =
                   IF outcome \in {"ready", "not_ready"} THEN "success" ELSE "idle"]
  /\ UNCHANGED <<unhealthy, since_check, since_callback, last_gap, router_transports>>
  /\ UNCHANGED <<ffmpeg_processes, running, nextProc, dbVars, loc, snapshot, stops>>

\* a run of start_device_stream that finds the room in active_streams and a
\* producer of the room in the router: the reconnect response, nothing is
\* said to the monitor
ReconnectRun ==
  /\ calls < MaxRuns
  /\ calls' = calls + 1
  /\ active_streams
  /\ router_producers # {}
  /\ pc' = [pc EXCEPT !["start"] = "reconnect"]
  /\ callbacks' = 0
  /\ UNCHANGED <<hm, unhealthy, since_check, since_callback, last_gap, routerVars>>
  /\ UNCHANGED <<pipelineVars, dbVars, loc, snapshot, stops>>

\* the response of a Start that succeeded leaves
RespondRun ==
  /\ pc["start"] \in {"success", "reconnect"}
  /\ Goto("start", "idle")
  /\ UNCHANGED <<loc, pipelineVars, routerVars, dbVars, monitorVars, observerVars, callVars>>

\* a run of stop_device_stream: stop_stream closes the producers, then
\* unregister_stream
StopRun ==
  /\ calls < MaxRuns
  /\ calls' = calls + 1
  /\ \E closed \in SUBSET router_producers :
       /\ router_producers' = router_producers \ closed
       /\ packets' = Forgotten(closed)
  /\ hm' = Tracked(unregister_stream(hm, Room), router_producers')
  /\ callbacks' = 0
  /\ active_streams' = FALSE
  /\ UNCHANGED <<unhealthy, since_check, router_transports, nextTransport>>
  /\ UNCHANGED <<ffmpeg_processes, running, nextProc, dbVars, flowVars>>
  /\ UNCHANGED <<since_callback, last_gap, snapshot, stops>>

\* a handler runs to its end, its response included, between two steps of the
\* monitor
MonitorSteps ==
  \/ /\ pc["start"] = "idle"
     /\ \/ StartRun
        \/ ReconnectRun
        \/ StopRun
        \/ PacketsArrive
        \/ Tick
        \/ HealthCheck
        \/ HandleUnhealthy
  \/ RespondRun

NextMonitor == MonitorSteps /\ UNCHANGED <<channelVars, serviceVars, staleVars, loopVars,
                   ssrcVars>>

SpecMonitor == Init /\ [][NextMonitor]_vars

\* ------------------------------------------------- the stale producers
\* SpecStale follows the monitor's loop after one Start, next to an observer
\* of the statistics the router gives it; the loop goes on while the Start
\* waits for its producer's packets and commits its rows.

\* a run of start_device_stream's full sequence as far as its producer
CreatedRun ==
  /\ calls < MaxRuns
  /\ calls' = calls + 1
  /\ \E closed \in SUBSET router_producers, outcome \in {"ready", "not_ready"} :
       RouterAfterRun(closed, outcome)
  /\ hm' = Tracked(hm, router_producers')
  /\ active_streams' = TRUE
  /\ Goto("start", "created")
  /\ UNCHANGED <<unhealthy, since_check, observerVars, router_transports>>
  /\ UNCHANGED <<ffmpeg_processes, running, nextProc, dbVars, loc, snapshot, stops>>

\* the end of that run: register_stream for the producer it created
RegisterRun ==
  /\ pc["start"] = "created"
  /\ Goto("start", "success")
  /\ hm' = register_stream(hm, Room, Max(router_producers))
  /\ callbacks' = 0
  /\ UNCHANGED <<unhealthy, since_check, since_callback, last_gap>>
  /\ UNCHANGED <<loc, pipelineVars, routerVars, dbVars, callVars>>

\* a health check that got the statistics of the room's producers
GotStatistics ==
  /\ unhealthy = <<>>
  /\ since_check >= CheckInterval
  /\ since_check' = 0
  /\ CheckHealth

\* a producer the monitor knows whose packets_received, as the statistics
\* report it now, is not above what the statistics of the previous health
\* check reported (nothing at all, for a producer they did not list)
NotAdvanced(p) ==
  /\ Has(hm.last_packet_counts, p)
  /\ packets[p] <= Get(seen_packets, p, 0)

\* what an observer of the router's statistics keeps of a step: of a health
\* check the counts it got, of any other step the producers still there
Statistics ==
  IF GotStatistics
  THEN /\ seen_packets' = [p \in router_producers |-> packets[p]]
       /\ stale_checks' =
            [p \in router_producers |->
               IF NotAdvanced(p)
               THEN Min(Get(stale_checks, p, 0) + 1, StaleThreshold)
               ELSE 0]
  ELSE /\ seen_packets' = Restrict(seen_packets, router_producers')
       /\ stale_checks' = Restrict(stale_checks, router_producers')

StaleSteps ==
  \/ /\ pc["start"] = "idle"
     /\ \/ calls = 0 /\ (StartRun \/ CreatedRun)
        \/ HandleUnhealthy
  \/ /\ pc["start"] \in {"idle", "created"}
     /\ \/ PacketsArrive
        \/ Tick
        \/ HealthCheck
  \/ RegisterRun
  \/ RespondRun

NextStale ==
  StaleSteps /\ Statistics
    /\ UNCHANGED <<channelVars, serviceVars, loopVars, ssrcVars>>

SpecStale == Init /\ [][NextStale]_vars

\* ------------------------------------------------- the loop left to itself
\* SpecRecovery follows the monitor's loop after one Start, with no further
\* request and a router that answers every request for the statistics: the
\* loop sleeps, checks and handles for as long as the service runs (while
\* self._running).

\* the loop takes its next step: it sleeps, gets the statistics and checks
\* them, or handles an unhealthy stream
MonitorLoop ==
  /\ pc["start"] = "idle"
  /\ \/ Tick
     \/ HealthCheck /\ GotStatistics
     \/ HandleUnhealthy
  /\ UNCHANGED <<channelVars, serviceVars, staleVars, loopVars,
                   ssrcVars>>

RecoverySteps ==
  \/ /\ pc["start"] = "idle"
     /\ \/ calls = 0 /\ StartRun
        \/ PacketsArrive
        \/ Tick
        \/ HealthCheck /\ GotStatistics
        \/ HandleUnhealthy
  \/ RespondRun

NextRecovery == RecoverySteps /\ UNCHANGED <<channelVars, serviceVars, staleVars, loopVars,
                   ssrcVars>>

SpecRecovery ==
  /\ Init
  /\ [][NextRecovery]_vars
  /\ WF_vars(MonitorLoop)
  /\ WF_vars(RespondRun /\ UNCHANGED <<channelVars, serviceVars, staleVars, loopVars,
                   ssrcVars>>)

\* ------------------------------------------------- the loop after a Stop
\* SpecStopped follows the monitor's loop through one Start and then one Stop,
\* the last request: the Stop comes between two checks, or between the
\* handling of two unhealthy producers of one check.
StoppedSteps ==
  \/ /\ pc["start"] = "idle"
     /\ \/ calls = 0 /\ StartRun
        \/ calls = 1 /\ StopRun
        \/ PacketsArrive
        \/ Tick
        \/ HealthCheck
        \/ HandleUnhealthy
  \/ RespondRun

NextStopped == StoppedSteps /\ UNCHANGED <<channelVars, serviceVars, staleVars, loopVars,
                   ssrcVars>>

SpecStopped == Init /\ [][NextStopped]_vars

\* ------------------------------------------------- start() and stop()
\* SpecLoop follows StreamHealthMonitor.start and stop, called in any order
\* and while an earlier stop() still awaits the task it cancelled, and the
\* tasks that run _monitor_loop. A task is its number; the loop's checks are
\* left out, only where it ends is kept.
Stoppers == 1..MaxStoppers

\* start(): nothing when _running, else a new task for _monitor_loop
MonitorStart ==
  /\ monitor_calls < MaxMonitorCalls
  /\ monitor_calls' = monitor_calls + 1
  /\ IF monitor_running
     THEN UNCHANGED <<monitor_running, monitor_task, loops>>
     ELSE /\ monitor_running' = TRUE
          /\ monitor_task' = monitor_calls + 1
          /\ loops' = loops \cup {monitor_calls + 1}
  /\ UNCHANGED <<cancelled, stopper>>

\* stop() up to `await self._monitor_task`: _running is cleared, the task
\* cancelled; without a task stop() returns
MonitorStop(c) ==
  /\ monitor_calls < MaxMonitorCalls
  /\ monitor_calls' = monitor_calls + 1
  /\ stopper[c].pc = "idle"
  /\ monitor_running' = FALSE
  /\ IF monitor_task # NoId
     THEN /\ cancelled' = cancelled \cup ({monitor_task} \cap loops)
          /\ stopper' = [stopper EXCEPT ![c] = [pc |-> "await", task |-> monitor_task]]
     ELSE UNCHANGED <<cancelled, stopper>>
  /\ UNCHANGED <<monitor_task, loops>>

\* the awaited task has ended: stop() goes on, self._monitor_task = None
MonitorStopped(c) ==
  /\ stopper[c].pc = "await"
  /\ stopper[c].task \notin loops
  /\ monitor_task' = NoId
  /\ stopper' = [stopper EXCEPT ![c] = [pc |-> "idle", task |-> NoId]]
  /\ UNCHANGED <<monitor_running, loops, cancelled, monitor_calls>>

\* CancelledError reaches a cancelled task at its await: the loop ends
LoopCancelled(t) ==
  /\ t \in cancelled
  /\ loops' = loops \ {t}
  /\ cancelled' = cancelled \ {t}
  /\ UNCHANGED <<monitor_running, monitor_task, stopper, monitor_calls>>

\* a task wakes from its sleep and finds `while self._running` false: the
\* loop ends
LoopEnds(t) ==
  /\ t \in loops \ cancelled
  /\ ~monitor_running
  /\ loops' = loops \ {t}
  /\ UNCHANGED <<monitor_running, monitor_task, cancelled, stopper, monitor_calls>>

LoopSteps ==
  \/ MonitorStart
  \/ \E c \in Stoppers : MonitorStop(c) \/ MonitorStopped(c)
  \/ \E t \in loops : LoopCancelled(t) \/ LoopEnds(t)

NextLoop ==
  LoopSteps
    /\ UNCHANGED <<orchestratorVars, channelVars, serviceVars, staleVars,
                   ssrcVars>>

SpecLoop == Init /\ [][NextLoop]_vars

\* ------------------------------------------------- the router connection
\* SpecChannel follows MediaSoupClient._send_request for the coroutines that
\* share the one client (the handlers of the requests, the monitor's loop).
\* A request frame is named by a number, and so is the reply frame the router
\* produces for it; the router answers the frames of a connection in order.

NewSocket == [open |-> TRUE, wire |-> <<>>, inbox |-> <<>>]

\* `not self.connected or not self.websocket or self.websocket.closed`
NeedsConnect ==
  \/ ~connected
  \/ websocket = NoId
  \/ ~socks[websocket].open

\* websocket.send(json.dumps(message)), then websocket.recv() is called, on
\* connection s of ss: recv raises RuntimeError("cannot call recv while another
\* coroutine is already waiting for the next message") when a caller waits on s;
\* that message names neither "connection" nor "closed", so the client is left
\* as it is
SendOn(c, s, ss) ==
  /\ nextReq <= MaxRequests
  /\ socks' = [ss EXCEPT ![s].wire = Append(@, nextReq)]
  /\ nextReq' = nextReq + 1
  /\ caller' = [caller EXCEPT ![c] =
        [pc |-> IF \E d \in Callers \ {c} :
                     caller[d].pc = "recv" /\ caller[d].sock = s
                THEN "busy" ELSE "recv",
         req |-> nextReq, sock |-> s, got |-> NoId]]

\* _send_request is called: the check of the connection, then connect() up to
\* `await websockets.connect`, or the request frame is sent
Call(c) ==
  /\ caller[c].pc = "idle"
  /\ IF NeedsConnect
     THEN /\ websocket' = NoId
          /\ connected' = FALSE
          /\ socks' = IF websocket # NoId
                      THEN [socks EXCEPT ![websocket] =
                              [open |-> FALSE, wire |-> <<>>, inbox |-> <<>>]]
                      ELSE socks
          /\ caller' = [caller EXCEPT ![c].pc = "connecting"]
          /\ UNCHANGED nextReq
     ELSE /\ SendOn(c, websocket, socks)
          /\ UNCHANGED <<connected, websocket>>

\* websockets.connect returns a connection, and the request frame is sent on it
ConnectOk(c) ==
  /\ caller[c].pc = "connecting"
  /\ Len(socks) < MaxConnects
  /\ websocket' = Len(socks) + 1
  /\ connected' = TRUE
  /\ SendOn(c, Len(socks) + 1, Append(socks, NewSocket))

\* websockets.connect raises: connect() re-raises, no frame is sent
ConnectFails(c) ==
  /\ caller[c].pc = "connecting"
  /\ connected' = FALSE
  /\ caller' = [caller EXCEPT ![c].pc = "unavailable"]
  /\ UNCHANGED <<websocket, socks, nextReq>>

\* the router answers the oldest request frame of a connection
RouterReply(s) ==
  /\ socks[s].open
  /\ socks[s].wire # <<>>
  /\ socks' = [socks EXCEPT ![s].wire = Tail(@),
                            ![s].inbox = Append(@, Head(socks[s].wire))]
  /\ UNCHANGED <<connected, websocket, caller, nextReq>>

\* websocket.recv() returns the next inbound frame of the connection
Recv(c) ==
  /\ caller[c].pc = "recv"
  /\ socks[caller[c].sock].inbox # <<>>
  /\ caller' = [caller EXCEPT ![c].pc = "done",
                              ![c].got = Head(socks[caller[c].sock].inbox)]
  /\ socks' = [socks EXCEPT ![caller[c].sock].inbox = Tail(@)]
  /\ UNCHANGED <<connected, websocket, nextReq>>

\* the connection is lost, with the frames under way
ConnectionLost(s) ==
  /\ socks[s].open
  /\ socks' = [socks EXCEPT ![s] = [open |-> FALSE, wire |-> <<>>, inbox |-> <<>>]]
  /\ UNCHANGED <<connected, websocket, caller, nextReq>>

\* a handler of ConnectionClosed that only re-raises
ConnectionClosedIgnored == UNCHANGED <<connected, websocket>>

\* `except ConnectionClosed`: what the handler does to the client
ConnectionClosedHandler ==
  /\ connected' = FALSE
  /\ websocket' = NoId

\* websocket.recv() raises ConnectionClosed
RecvClosed(c) ==
  /\ caller[c].pc = "recv"
  /\ ~socks[caller[c].sock].open
  /\ ConnectionClosedHandler
  /\ caller' = [caller EXCEPT ![c].pc = "closed"]
  /\ UNCHANGED <<socks, nextReq>>

\* the caller is cancelled while it waits in connect or recv: CancelledError
\* passes `except Exception`
Abandon(c) ==
  /\ caller[c].pc \in {"connecting", "recv"}
  /\ caller' = [caller EXCEPT ![c].pc = "abandoned"]
  /\ UNCHANGED <<connected, websocket, socks, nextReq>>

\* how a _send_request ends: with the reply, with RuntimeError("MediaSoup
\* connection closed"), with connect's exception, with recv's RuntimeError,
\* cancelled
Ended == {"done", "closed", "unavailable", "busy", "abandoned"}

\* the caller goes on and may call again
CallerReturns(c) ==
  /\ caller[c].pc \in Ended
  /\ caller' = [caller EXCEPT ![c] = NoCall]
  /\ UNCHANGED <<connected, websocket, socks, nextReq>>

ChannelSteps ==
  \/ \E c \in Callers : Call(c)
  \/ \E c \in Callers : ConnectOk(c)
  \/ \E c \in Callers : ConnectFails(c)
  \/ \E s \in DOMAIN socks : RouterReply(s)
  \/ \E c \in Callers : Recv(c)
  \/ \E s \in DOMAIN socks : ConnectionLost(s)
  \/ \E c \in Callers : RecvClosed(c)
  \/ \E c \in Callers : Abandon(c)
  \/ \E c \in Callers : CallerReturns(c)

NextChannel == ChannelSteps /\ UNCHANGED <<orchestratorVars, serviceVars, staleVars, loopVars,
                   ssrcVars>>

SpecChannel == Init /\ [][NextChannel]_vars

\* ------------------------------------------------- the transcoders' ports
\* SpecPorts follows the source port RTSPPipeline gives the transcoder of each
\* camera. hash() of a string is salted when the interpreter starts: which
\* integers the stream ids hash to is open, distinct ids hashing to distinct
\* integers.
Cameras == 1..MaxCameras
HashValues ==
  {sign * (h + 10000 * k) : sign \in {-1, 1}, h \in 0..MaxHash, k \in 0..1}

abs(x) == IF x < 0 THEN -x ELSE x

get_ffmpeg_source_port(stream_id) == 40000 + (abs(str_hash[stream_id]) % 10000)

InterpreterStart ==
  /\ str_hash = <<>>
  /\ \E h \in [Cameras -> HashValues] :
       /\ \A c, d \in Cameras : c # d => h[c] # h[d]
       /\ str_hash' = h
  /\ UNCHANGED ffmpeg_ports

\* start_stream records the port the transcoder binds in the stream's entry
StartStreamPort(stream_id) ==
  /\ str_hash # <<>>
  /\ ~Has(ffmpeg_ports, stream_id)
  /\ ffmpeg_ports' = Put(ffmpeg_ports, stream_id, get_ffmpeg_source_port(stream_id))
  /\ UNCHANGED str_hash

StopStreamPort(stream_id) ==
  /\ Has(ffmpeg_ports, stream_id)
  /\ ffmpeg_ports' = Pop(ffmpeg_ports, stream_id)
  /\ UNCHANGED str_hash

PortSteps ==
  \/ InterpreterStart
  \/ \E stream_id \in Cameras : StartStreamPort(stream_id)
  \/ \E stream_id \in Cameras : StopStreamPort(stream_id)

NextPorts ==
  PortSteps
    /\ UNCHANGED <<orchestratorVars, channelVars, retentionVars, auditVars,
                   consumerVars, authVars, staleVars, loopVars,
                   ssrcVars>>

SpecPorts == Init /\ [][NextPorts]_vars

\* ------------------------------------------------- recordings and retention
\* SpecRetention follows the recording root /recordings/hot/<device>/<name>
\* and the loop of _start_cleanup_service. The clock counts the loop's periods
\* of 6 hours; sizes are in units of 5 % of the filesystem. The transcoders
\* are processes of their own: they write while a pass is under way.
Devices == 1..MaxDevices
QuartersPerDay == 4
\* names under a device's directory: a day for a name "%Y%m%d", and
Playlist == -1     \* "stream.m3u8"
Malformed == -2    \* a directory name strptime rejects
NoTime == -1

NewDir == [isdir |-> TRUE, size |-> 0, oldest |-> NoTime]
NewFile == [isdir |-> FALSE, size |-> 0, oldest |-> NoTime]

Today == now \div QuartersPerDay
\* datetime.strptime(date_dir, "%Y%m%d"): midnight of that day
strptime(name) == name * QuartersPerDay
IsDateDir(rec, k) == rec[k].isdir /\ k[2] >= 0
DateDirs(rec) == {k \in DOMAIN rec : IsDateDir(rec, k)}

RECURSIVE TotalSize(_, _)
TotalSize(rec, keys) ==
  IF keys = {} THEN 0
  ELSE LET k == CHOOSE x \in keys : TRUE
       IN rec[k].size + TotalSize(rec, keys \ {k})

\* shutil.disk_usage(recording_base).used
Used(rec) == disk_other + TotalSize(rec, DOMAIN rec)
\* usage_percent >= percent, usage_percent > percent
AtLeast(rec, percent) == Used(rec) * 100 >= percent * DiskTotal
Above(rec, percent) == Used(rec) * 100 > percent * DiskTotal

\* a running transcoder creates and deletes files in the directory: listing
\* it, sizing its files or removing it can raise OSError
Busy(k) == Has(transcoder, k[1]) /\ transcoder[k[1]] = k[2]

\* space of the filesystem taken by other files, before anything is recorded:
\* the levels from which MaxSegments files reach a threshold of the disk guard
OtherFiles ==
  /\ written = 0 /\ disk_other = 0 /\ recordings = <<>> /\ rpc = "sleep"
  /\ now = 0
  /\ \E used \in (DiskTotal - MaxSegments - 2)..(DiskTotal - MaxSegments - 1) :
       disk_other' = used
  /\ UNCHANGED <<now, since_pass, recordings, transcoder, written, rpc, target,
                 device_dates, failed_dirs, emergency_deleted, critical,
                 freed_space>>

\* start_stream: the directory of today and the playlist above it
StartRecording(device) ==
  /\ ~Has(transcoder, device)
  /\ now <= MaxRecordTime
  /\ <<device, Today>> \in DOMAIN recordings
       \/ Cardinality(DateDirs(recordings)) < MaxDirs
  /\ transcoder' = Put(transcoder, device, Today)
  /\ recordings' =
       LET made == IF <<device, Today>> \in DOMAIN recordings THEN recordings
                   ELSE Put(recordings, <<device, Today>>, NewDir)
       IN IF <<device, Playlist>> \in DOMAIN made THEN made
          ELSE Put(made, <<device, Playlist>>, NewFile)
  /\ UNCHANGED <<now, since_pass, disk_other, written, rpc, target,
                 device_dates, failed_dirs, emergency_deleted, critical,
                 freed_space>>

\* the transcoder closes a segment in the directory it was started with
WriteSegment(device) ==
  /\ Has(transcoder, device)
  /\ written < MaxSegments
  /\ now <= MaxRecordTime
  /\ Used(recordings) < DiskTotal
  /\ LET k == <<device, transcoder[device]>>
     IN /\ k \in DOMAIN recordings
        /\ recordings' =
             [recordings EXCEPT ![k] =
                [@ EXCEPT !.size = @ + 1,
                          !.oldest = IF @ = NoTime THEN now ELSE @]]
  /\ written' = written + 1
  /\ UNCHANGED <<now, since_pass, transcoder, disk_other, rpc, target,
                 device_dates, failed_dirs, emergency_deleted, critical,
                 freed_space>>

StopRecording(device) ==
  /\ Has(transcoder, device)
  /\ now <= MaxRecordTime
  /\ transcoder' = Pop(transcoder, device)
  /\ UNCHANGED <<now, since_pass, recordings, disk_other, written, rpc, target,
                 device_dates, failed_dirs, emergency_deleted, critical,
                 freed_space>>

\* somebody makes a directory with another name under a device's directory
OtherDir(device) ==
  /\ <<device, Malformed>> \notin DOMAIN recordings
  /\ written < MaxSegments
  /\ now <= MaxRecordTime
  /\ Used(recordings) < DiskTotal
  /\ recordings' = Put(recordings, <<device, Malformed>>,
                       [isdir |-> TRUE, size |-> 1, oldest |-> now])
  /\ written' = written + 1
  /\ UNCHANGED <<now, since_pass, transcoder, disk_other, rpc, target,
                 device_dates, failed_dirs, emergency_deleted, critical,
                 freed_space>>

\* asyncio.sleep(6 * 3600)
Sleep ==
  /\ rpc = "sleep" /\ since_pass = 0
  /\ now < MaxNow
  /\ now' = now + 1
  /\ since_pass' = 1
  /\ UNCHANGED <<recordings, transcoder, disk_other, written, rpc, target,
                 device_dates, failed_dirs, emergency_deleted, critical,
                 freed_space>>

\* the list left in the order of os.listdir
ListedInAnyOrder(list) == TRUE

\* device_dates.sort(key=lambda x: x['date'])
SortedByDate(list) ==
  \A i, j \in 1..Len(list) : i < j => list[i].date <= list[j].date

\* the list _emergency_cleanup builds: every date directory it could size, in
\* the order of the sort
Listings(skipped) ==
  LET listed == DateDirs(recordings) \ skipped
      Item(k) == [device_id |-> k[1], date |-> k[2], size |-> recordings[k].size]
  IN {list \in [1..Cardinality(listed) -> {Item(k) : k \in listed}] :
        /\ \A i, j \in 1..Len(list) : i # j => list[i] # list[j]
        /\ SortedByDate(list)}

_emergency_cleanup(target_percent) ==
  /\ target' = target_percent
  /\ \E skipped \in SUBSET {k \in DateDirs(recordings) : Busy(k)} :
       /\ failed_dirs' = skipped
       /\ \E list \in Listings(skipped) : device_dates' = list
  /\ rpc' = "emergency"

\* _check_disk_space, up to the list of _emergency_cleanup
CheckDiskSpace ==
  /\ rpc = "sleep" /\ since_pass = 1
  /\ emergency_deleted' = 0
  /\ critical' = FALSE
  /\ freed_space' = 0
  /\ IF AtLeast(recordings, 95) THEN _emergency_cleanup(80)
     ELSE IF AtLeast(recordings, 90) THEN _emergency_cleanup(85)
     ELSE /\ rpc' = "cleanup"
          /\ UNCHANGED <<target, device_dates, failed_dirs>>
  /\ UNCHANGED <<now, since_pass, recordings, transcoder, disk_other, written>>

\* one turn of the loop over device_dates
EmergencyDelete ==
  /\ rpc = "emergency"
  /\ device_dates # <<>>
  /\ Above(recordings, target)
  /\ device_dates' = Tail(device_dates)
  /\ LET item == Head(device_dates)
         k == <<item.device_id, item.date>>
     IN \/ /\ k \in DOMAIN recordings
           /\ recordings' = Pop(recordings, k)
           /\ emergency_deleted' = emergency_deleted + 1
           /\ UNCHANGED failed_dirs
        \/ \* shutil.rmtree raises
           /\ Busy(k) \/ k \notin DOMAIN recordings
           /\ failed_dirs' = failed_dirs \cup {k}
           /\ UNCHANGED <<recordings, emergency_deleted>>
  /\ UNCHANGED <<now, since_pass, transcoder, disk_other, written, rpc, target,
                 critical, freed_space>>

\* the break or the end of the list, and the final report
EmergencyReport ==
  /\ rpc = "emergency"
  /\ device_dates = <<>> \/ ~Above(recordings, target)
  /\ critical' = Above(recordings, target)
  /\ rpc' = "cleanup"
  /\ device_dates' = <<>>
  /\ failed_dirs' = {}
  /\ UNCHANGED <<now, since_pass, recordings, transcoder, disk_other, written,
                 target, emergency_deleted, freed_space>>

\* the date directories _cleanup_old_recordings finds older than the cutoff
Expired(rec) ==
  LET cutoff_date == now - recording_retention_days * QuartersPerDay
  IN {k \in DateDirs(rec) : strptime(k[2]) < cutoff_date}

\* _cleanup_old_recordings, then back to sleep. An OSError of a directory in
\* use ends the pass in its outer handler, whatever is left.
CleanupOldRecordings ==
  /\ rpc = "cleanup"
  /\ \E deleted \in SUBSET Expired(recordings) :
       /\ \/ deleted = Expired(recordings)
          \/ \E k \in Expired(recordings) \ deleted : Busy(k)
       /\ recordings' = [k \in DOMAIN recordings \ deleted |-> recordings[k]]
       /\ freed_space' = TotalSize(recordings, deleted)
  /\ rpc' = "sleep"
  /\ since_pass' = 0
  /\ UNCHANGED <<now, transcoder, disk_other, written, target, device_dates,
                 failed_dirs, emergency_deleted, critical>>

RetentionSteps ==
  \/ OtherFiles
  \/ \E device \in Devices : StartRecording(device)
  \/ \E device \in Devices : WriteSegment(device)
  \/ \E device \in Devices : StopRecording(device)
  \/ \E device \in Devices : OtherDir(device)
  \/ Sleep
  \/ CheckDiskSpace
  \/ EmergencyDelete
  \/ EmergencyReport
  \/ CleanupOldRecordings

NextRetention ==
  RetentionSteps
    /\ UNCHANGED <<orchestratorVars, channelVars, portVars, auditVars,
                   consumerVars, authVars, staleVars, loopVars, cleanup_task,
                   ssrcVars>>

SpecRetention == Init /\ [][NextRetention]_vars

\* ------------------------------------------------- the service as it boots
\* SpecService follows the application from its start: lifespan starts the
\* health monitor, the cameras record, the clock goes on. RTSPPipeline's
\* constructor leaves cleanup_task None ("Cleanup task deferred") and nothing
\* in the sources calls _start_cleanup_service, so no step of its loop is
\* taken here.

\* lifespan, up to its yield
Lifespan ==
  /\ ~monitor_running
  /\ monitor_calls = 0
  /\ MonitorStart
  /\ UNCHANGED retentionVars

\* six hours pass
ClockTick ==
  /\ monitor_running
  /\ now < MaxNow
  /\ now' = now + 1
  /\ UNCHANGED <<since_pass, recordings, transcoder, disk_other, written, rpc,
                 target, device_dates, failed_dirs, emergency_deleted, critical,
                 freed_space, cleanup_task, loopVars>>

ServiceSteps ==
  \/ Lifespan
  \/ /\ monitor_running
     /\ \/ \E device \in Devices : StartRecording(device)
        \/ \E device \in Devices : WriteSegment(device)
        \/ \E device \in Devices : StopRecording(device)
     /\ UNCHANGED <<cleanup_task, loopVars>>
  \/ ClockTick

NextService ==
  ServiceSteps
    /\ UNCHANGED <<orchestratorVars, channelVars, portVars, auditVars,
                   consumerVars, authVars, staleVars, ssrcVars>>

SpecService == Init /\ [][NextService]_vars

\* ------------------------------------------------------------- SSRC capture
\* SpecSsrc follows one call at a time of capture_rtp_ssrc and of
\* capture_ssrc_with_temp_ffmpeg: the socket, the bind, the temporary FFmpeg of
\* the second, the one recv and the return.
CaptureFns == {"capture_rtp_ssrc", "capture_ssrc_with_temp_ffmpeg"}
Bytes == {0, 1, 255}
\* bytes 0..3 of an RTP packet of payload type 96
RtpHeader == <<128, 96, 0, 1>>
DatagramLengths == {0, 4, 11, 12, 13}

\* the datagrams a sender may put on the port
Datagram(n, body) == [i \in 1..n |-> IF i <= 4 THEN RtpHeader[i] ELSE body[i]]

\* data[lo:hi], with Python's positions counted from 0
Slice(d, lo, hi) == [i \in 1..(Min(hi, Len(d)) - lo) |-> d[lo + i]]

\* the unsigned 32-bit value hi * 2^16 + lo, kept as its two halves (the
\* integers of the model checker end at 2^31 - 1); NoSsrc stands for None
UInt32(hi, lo) == <<hi, lo>>
NoSsrc == <<>>

\* struct.unpack('<I', b)[0]
unpack_little_endian(b) == UInt32(b[4] * 256 + b[3], b[2] * 256 + b[1])

\* struct.unpack('>I', b)[0]
unpack(b) == UInt32(b[1] * 256 + b[2], b[3] * 256 + b[4])

\* the finally of capture_ssrc_with_temp_ffmpeg; capture_rtp_ssrc has none
Finally(fn) ==
  IF fn = "capture_ssrc_with_temp_ffmpeg"
  THEN /\ sock' = IF sock = "none" THEN "none" ELSE "closed"
       /\ temp_process' = IF temp_process = "running" THEN "ended"
                          ELSE temp_process
  ELSE UNCHANGED <<sock, temp_process>>

\* the call, up to socket.socket(): it gives a socket or raises
CaptureCall(fn) ==
  /\ capture.pc = "idle"
  /\ captures < MaxCaptures
  /\ captures' = captures + 1
  /\ \/ /\ sock' = "open"
        /\ capture' = [NoCapture EXCEPT !.fn = fn, !.pc = "socket"]
     \/ /\ sock' = "none"
        /\ capture' = [NoCapture EXCEPT !.fn = fn, !.pc = "returned",
                                        !.outcome = "error"]
  /\ UNCHANGED <<data, detected_ssrc, temp_process>>

\* settimeout and bind; a bind that raises is caught by the outer handler,
\* which in capture_rtp_ssrc returns None with the socket as it is
Bind ==
  /\ capture.pc = "socket"
  /\ \/ /\ sock' = "bound"
        /\ capture' = [capture EXCEPT !.pc = "bound", !.bound = TRUE]
        /\ UNCHANGED temp_process
     \/ /\ capture' = [capture EXCEPT !.pc = "returned", !.outcome = "error"]
        /\ Finally(capture.fn)
  /\ UNCHANGED <<data, detected_ssrc, captures>>

\* create_subprocess_exec and the stderr monitor
SpawnTemp ==
  /\ capture.pc = "bound"
  /\ capture.fn = "capture_ssrc_with_temp_ffmpeg"
  /\ \/ /\ temp_process' = "running"
        /\ capture' = [capture EXCEPT !.pc = "spawned"]
        /\ UNCHANGED sock
     \/ /\ capture' = [capture EXCEPT !.pc = "returned", !.outcome = "error"]
        /\ Finally(capture.fn)
  /\ UNCHANGED <<data, detected_ssrc, captures>>

\* recv is reached
AtRecv ==
  \/ capture.pc = "bound" /\ capture.fn = "capture_rtp_ssrc"
  \/ capture.pc = "spawned"

\* the socket after the return: capture_rtp_ssrc closes it before each of its
\* returns, capture_ssrc_with_temp_ffmpeg in its finally
CloseAndReturn(outcome) ==
  /\ capture' = [capture EXCEPT !.pc = "returned", !.outcome = outcome]
  /\ sock' = "closed"
  /\ temp_process' = IF temp_process = "running" THEN "ended" ELSE temp_process

\* recvfrom / recv gives a datagram
Receive ==
  /\ AtRecv
  /\ \E n \in DatagramLengths, body \in [5..13 -> Bytes] :
       /\ data' = Datagram(n, body)
       /\ detected_ssrc' = IF Len(data') >= 12
                           THEN unpack(Slice(data', 8, 12))
                           ELSE NoSsrc
  /\ CloseAndReturn("datagram")
  /\ UNCHANGED captures

\* socket.timeout, asyncio.TimeoutError, or another exception of recv
ReceiveFails ==
  /\ AtRecv
  /\ \E outcome \in {"timeout", "error"} : CloseAndReturn(outcome)
  /\ UNCHANGED <<data, detected_ssrc, captures>>

\* the caller has the result; the next call starts afresh
CaptureDone ==
  /\ capture.pc = "returned"
  /\ capture' = NoCapture
  /\ sock' = "none"
  /\ data' = <<>>
  /\ detected_ssrc' = NoSsrc
  /\ temp_process' = "none"
  /\ UNCHANGED captures

SsrcSteps ==
  \/ \E fn \in CaptureFns : CaptureCall(fn)
  \/ Bind
  \/ SpawnTemp
  \/ Receive
  \/ ReceiveFails
  \/ CaptureDone

NextSsrc ==
  SsrcSteps
    /\ UNCHANGED <<orchestratorVars, channelVars, serviceVars, staleVars,
                   loopVars>>

SpecSsrc == Init /\ [][NextSsrc]_vars

\* ------------------------------------------------------------ consumers
\* SpecConsumers follows attach_consumer step by step, one request at a time,
\* while start_device_stream, stop_device_stream and the V2 stream creation
\* commit to the Stream row and the Producer rows between its steps.

\* the rows a handler closes at its commit are the ones that were open when
\* it read them: the open rows up to some row
ReadOpen(n) == {i \in OpenRows(producer_rows) : i <= n}

\* create_stream of the V2 API: the row starts as INITIALIZING
CreateStreamCommit ==
  /\ stream_state = "NONE"
  /\ stream_state' = "INITIALIZING"
  /\ UNCHANGED producer_rows

\* the commit of start_device_stream
StreamLiveCommit ==
  /\ Len(producer_rows) < MaxRows
  /\ stream_state' = "LIVE"
  /\ \E n \in 0..Len(producer_rows) :
       producer_rows' = Append(CloseRows(producer_rows, ReadOpen(n)),
                               NewProducerRow(Len(producer_rows) + 1, 0))

\* the commit of stop_device_stream
StreamStoppedCommit ==
  /\ stream_state # "NONE"
  /\ stream_state' = "STOPPED"
  /\ \E n \in 0..Len(producer_rows) :
       producer_rows' = CloseRows(producer_rows, ReadOpen(n))

Commits ==
  /\ CreateStreamCommit \/ StreamLiveCommit \/ StreamStoppedCommit
  /\ UNCHANGED consumerVars

\* raise HTTPException(status_code, detail with retry_after_seconds)
Raise(status_code, retry_after_seconds) ==
  attach' = [attach EXCEPT !.pc = "done", !.status_code = status_code,
                           !.retry_after_seconds = retry_after_seconds]

AttachBegin ==
  /\ attach.pc = "idle"
  /\ attaches < MaxAttach
  /\ attaches' = attaches + 1
  /\ attach' = [NoAttach EXCEPT !.pc = "stream"]
  /\ UNCHANGED <<webrtc_transports, router_consumers, consumer_rows>>

\* 1. the stream exists and is LIVE
AttachStream ==
  /\ attach.pc = "stream"
  /\ IF stream_state = "NONE" THEN Raise(404, 0)
     ELSE IF stream_state # "LIVE"
     THEN attach' = [attach EXCEPT !.pc = "done", !.status_code = 409,
                                   !.retry_after_seconds = 2,
                                   !.state = stream_state]
     ELSE attach' = [attach EXCEPT !.pc = "producer", !.state = stream_state]
  /\ UNCHANGED <<attaches, webrtc_transports, router_consumers, consumer_rows>>

\* 2. the ACTIVE producer: scalar_one_or_none raises on several rows, which
\* the handler turns into 500
AttachProducer ==
  /\ attach.pc = "producer"
  /\ LET active == ActiveRows(producer_rows)
     IN IF Cardinality(active) > 1 THEN Raise(500, 0)
        ELSE IF active = {} THEN attach' = [attach EXCEPT !.pc = "any_producer"]
        ELSE attach' = [attach EXCEPT !.pc = "transport",
                                      !.producer = CHOOSE i \in active : TRUE]
  /\ UNCHANGED <<attaches, webrtc_transports, router_consumers, consumer_rows>>

\* the producer in any state
AttachAnyProducer ==
  /\ attach.pc = "any_producer"
  /\ IF Len(producer_rows) > 1 THEN Raise(500, 0)
     ELSE IF Len(producer_rows) = 1 /\ producer_rows[1].state # "ACTIVE"
     THEN Raise(409, 2)
     ELSE Raise(409, 5)
  /\ UNCHANGED <<attaches, webrtc_transports, router_consumers, consumer_rows>>

\* 3. create_webrtc_transport
AttachTransport ==
  /\ attach.pc = "transport"
  /\ \/ /\ webrtc_transports' = webrtc_transports \cup {attaches}
        /\ attach' = [attach EXCEPT !.pc = "consume", !.transport_id = attaches]
     \/ /\ Raise(500, 0)
        /\ UNCHANGED webrtc_transports
  /\ UNCHANGED <<attaches, router_consumers, consumer_rows>>

\* 4. consume; the transport is closed when it fails, if that succeeds
AttachConsume ==
  /\ attach.pc = "consume"
  /\ \/ /\ router_consumers' = router_consumers \cup {attaches}
        /\ attach' = [attach EXCEPT !.pc = "commit", !.consumer_id = attaches]
        /\ UNCHANGED webrtc_transports
     \/ /\ Raise(500, 0)
        /\ \/ webrtc_transports' = webrtc_transports \ {attach.transport_id}
           \/ UNCHANGED webrtc_transports
        /\ UNCHANGED router_consumers
  /\ UNCHANGED <<attaches, consumer_rows>>

\* 5. the Consumer row, 6. the response
AttachCommit ==
  /\ attach.pc = "commit"
  /\ \/ /\ consumer_rows' =
             Append(consumer_rows,
                    [mediasoup_consumer_id |-> attach.consumer_id,
                     mediasoup_transport_id |-> attach.transport_id,
                     state |-> "CONNECTING"])
        /\ Raise(201, 0)
     \/ /\ Raise(500, 0)
        /\ UNCHANGED consumer_rows
  /\ UNCHANGED <<attaches, webrtc_transports, router_consumers>>

AttachReturn ==
  /\ attach.pc = "done"
  /\ attach' = NoAttach
  /\ UNCHANGED <<attaches, webrtc_transports, router_consumers, consumer_rows>>

attach_consumer ==
  /\ \/ AttachBegin \/ AttachStream \/ AttachProducer \/ AttachAnyProducer
     \/ AttachTransport \/ AttachConsume \/ AttachCommit \/ AttachReturn
  /\ UNCHANGED <<stream_state, producer_rows>>

ConsumerSteps == Commits \/ attach_consumer

NextConsumers ==
  ConsumerSteps
    /\ UNCHANGED <<pipelineVars, routerVars, stream_metadata, monitorVars,
                   flowVars, observerVars, callVars, channelVars, portVars,
                   retentionVars, auditVars, authVars, staleVars, loopVars,
                   ssrcVars>>

SpecConsumers == Init /\ [][NextConsumers]_vars

\* ------------------------------------------------------------ refresh tokens
\* SpecAuth follows refresh_access_token and revoke_refresh_token for one
\* refresh token, each request with a database session of its own: a step is
\* what runs between two awaits.
Refreshers == 1..MaxRefreshers

RefreshGoto(r, label) == refresh' = [refresh EXCEPT ![r].pc = label]

\* the token has been exchanged, or a revocation of it has returned
Spent == exchanges > 0 \/ revoke = "returned"

RefreshCall(r) ==
  /\ refresh[r].pc = "idle"
  /\ refresh_calls < MaxRefresh
  /\ refresh_calls' = refresh_calls + 1
  /\ refresh' = [refresh EXCEPT ![r] = [pc |-> "fetch", late |-> Spent]]
  /\ UNCHANGED <<token_record, client_active, revoke, exchanges>>

\* the token's row is fetched; is_revoked and expires_at are checked
RefreshFetch(r) ==
  /\ refresh[r].pc = "fetch"
  /\ IF token_record.is_revoked \/ token_record.expired
     THEN RefreshGoto(r, "ValueError")
     ELSE RefreshGoto(r, "client")
  /\ UNCHANGED <<token_record, client_active, revoke, refresh_calls, exchanges>>

\* the client is fetched and checked
RefreshClient(r) ==
  /\ refresh[r].pc = "client"
  /\ IF client_active THEN RefreshGoto(r, "rotate")
     ELSE RefreshGoto(r, "ValueError")
  /\ UNCHANGED <<token_record, client_active, revoke, refresh_calls, exchanges>>

\* token rotation: the old row is marked revoked, the new one added, commit
RefreshRotate(r) ==
  /\ refresh[r].pc = "rotate"
  /\ token_record' = [token_record EXCEPT !.is_revoked = TRUE]
  /\ exchanges' = exchanges + 1
  /\ RefreshGoto(r, "returned")
  /\ UNCHANGED <<client_active, revoke, refresh_calls>>

RefreshDone(r) ==
  /\ refresh[r].pc \in {"returned", "ValueError"}
  /\ refresh' = [refresh EXCEPT ![r] = [pc |-> "idle", late |-> FALSE]]
  /\ UNCHANGED <<token_record, client_active, revoke, refresh_calls, exchanges>>

refresh_access_token(r) ==
  \/ RefreshCall(r) \/ RefreshFetch(r) \/ RefreshClient(r)
  \/ RefreshRotate(r) \/ RefreshDone(r)

\* revoke_refresh_token: the row is fetched, then marked and committed
RevokeFetch ==
  /\ revoke = "idle"
  /\ revoke' = "commit"
  /\ UNCHANGED <<token_record, client_active, refresh, refresh_calls, exchanges>>

RevokeCommit ==
  /\ revoke = "commit"
  /\ token_record' = [token_record EXCEPT !.is_revoked = TRUE]
  /\ revoke' = "returned"
  /\ UNCHANGED <<client_active, refresh, refresh_calls, exchanges>>

\* expires_at passes
TokenExpires ==
  /\ ~token_record.expired
  /\ token_record' = [token_record EXCEPT !.expired = TRUE]
  /\ UNCHANGED <<client_active, refresh, revoke, refresh_calls, exchanges>>

deactivate_client ==
  /\ client_active
  /\ client_active' = FALSE
  /\ UNCHANGED <<token_record, refresh, revoke, refresh_calls, exchanges>>

AuthSteps ==
  \/ \E r \in Refreshers : refresh_access_token(r)
  \/ RevokeFetch
  \/ RevokeCommit
  \/ TokenExpires
  \/ deactivate_client

NextAuth ==
  AuthSteps
    /\ UNCHANGED <<orchestratorVars, channelVars, portVars, retentionVars,
                   auditVars, consumerVars, staleVars, loopVars,
                   ssrcVars>>

SpecAuth == Init /\ [][NextAuth]_vars

\* ------------------------------------------------------------- properties
\* a step with which start_device_stream returns res
StartReturns(res) == pc["start"] \notin Returned /\ pc'["start"] = res
\* nothing but this Start has run since it was called
StartAlone == Alone("start")

\* P2: LIVE, one ACTIVE Producer row, its ssrc is the one in the metadata
LiveWithOneProducer ==
  /\ stream_state = "LIVE"
  /\ Cardinality(ActiveRows(producer_rows)) = 1
  /\ \A i \in ActiveRows(producer_rows) :
       producer_rows[i].ssrc = stream_metadata.ssrc

\* C1: when a Start returns success, from the full sequence or as a reconnect
\* of the session it found, the Stream is LIVE, exactly one of its Producer
\* rows is ACTIVE and that row's ssrc equals the Stream's session_metadata.ssrc
C1_StartSuccessPostcondition ==
  [][StartReturns("success") \/ StartReturns("reconnect") => LiveWithOneProducer']_vars

\* C2: in every reachable state, whatever the interleaving of Start, Stop and
\* restart, a LIVE Stream has exactly one ACTIVE Producer row
C2_OneActiveProducerPerLiveStream ==
  stream_state = "LIVE" => Cardinality(ActiveRows(producer_rows)) = 1

\* C3: when a Stop returns, no Producer row of the stream is other than
\* CLOSED, the Stream (if it has a row) is STOPPED or CLOSED, and
\* active_streams has no entry for the camera
C3_StopPostcondition ==
  [][(pc["stop"] \notin Returned /\ pc'["stop"] \in Returned)
       => /\ OpenRows(producer_rows') = {}
          /\ stream_state' \in {"NONE", "STOPPED", "CLOSED"}
          /\ ~active_streams']_vars

\* C4: at every point at most one transcoder process runs for the camera, and
\* it is the one tracked in ffmpeg_processes, under any interleaving of Start,
\* Stop and restart
C4_OneTrackedTranscoder ==
  /\ Cardinality(running) <= 1
  /\ running \subseteq {ffmpeg_processes}

\* C8: when a Start that ran alone returns an error, whichever step failed,
\* active_streams has no entry for the camera and none of its transcoder
\* processes is running
C8_FailedStartLeavesNoSession ==
  [][StartReturns("error") /\ StartAlone => ~active_streams' /\ running' = {}]_vars

\* C9: when a step of Start fails and Start returns its error, the Stream has
\* been transitioned to ERROR
C9_FailedStartMarksError ==
  [][StartReturns("error") => stream_state' = "ERROR"]_vars

\* C10: when a Start that ran alone is cancelled at a suspension point, the
\* Stream and Producer rows are those it found, and the pipeline and the router
\* hold either what it found or nothing for the camera: no transcoder process,
\* no transport, no producer, no registry entry
C10_CancelledStartLeavesNoTrace ==
  [][StartReturns("cancelled") /\ StartAlone =>
       LET found == snapshot[1] IN
       /\ stream_state' = found.state
       /\ stream_metadata' = found.metadata
       /\ producer_rows' = found.rows
       /\ \/ /\ active_streams' = found.active
             /\ running' = found.running
             /\ router_transports' = found.transports
             /\ router_producers' = found.producers
          \/ /\ ~active_streams'
             /\ running' = {}
             /\ router_transports' = {}
             /\ router_producers' = {}]_vars

\* the monitor handles the next unhealthy producer of the room
Handles == unhealthy # <<>> /\ unhealthy' = Tail(unhealthy)

\* C5: for the room, the monitor invokes the restart callback at most
\* max_restart_attempts times without a success in between (a check that sees
\* packets_received advance, a producer that got ready, a Start that
\* succeeded; a Stop starts the count anew as well)
C5_RestartsBounded == callbacks <= MaxRestartAttempts

\* C6: two invocations of the restart callback for the room are never less
\* than restart_cooldown apart, whatever Start, Stop, register_stream and
\* unregister_stream did in between
C6_CooldownBetweenRestarts == last_gap >= RestartCooldown

\* C7: once max_restart_attempts restarts were made without a success, the
\* next time the monitor handles a stale producer of the room off cooldown it
\* puts the room in failed_streams
C7_FailedAfterMaxRestarts ==
  [][Handles /\ callbacks >= MaxRestartAttempts /\ since_callback >= RestartCooldown
       => Room \in hm'.failed_streams]_vars

\* ------------------------------------------------ the Stream state machine
\* the transitions of Stream.state the state machine allows
LegalTransitions ==
  {<<"INITIALIZING", "READY">>, <<"INITIALIZING", "ERROR">>,
   <<"INITIALIZING", "STOPPED">>,
   <<"READY", "LIVE">>, <<"READY", "ERROR">>, <<"READY", "STOPPED">>,
   <<"LIVE", "LIVE">>, <<"LIVE", "ERROR">>, <<"LIVE", "STOPPED">>,
   <<"ERROR", "INITIALIZING">>, <<"ERROR", "STOPPED">>,
   <<"STOPPED", "INITIALIZING">>, <<"STOPPED", "CLOSED">>}

\* C11: every change of the persisted Stream.state made by Start, Stop or the
\* health-initiated restart is a transition of the table (from STOPPED only to
\* INITIALIZING or CLOSED, never out of CLOSED); an illegal change leaves the
\* row as it was
C11_LegalStateTransitions ==
  [][stream_state # "NONE" /\ stream_state' # stream_state
       => <<stream_state, stream_state'>> \in LegalTransitions]_vars

\* a flow is in progress from its first step until its handler returns
InProgress(f) == pc[f] \notin {"idle"} \cup Returned
Quiescent == \A f \in Flows : ~InProgress(f)

\* C12: active_streams has an entry for the camera if and only if its Stream
\* is INITIALIZING, READY or LIVE; checked in the states where no flow is in
\* progress, which the claim's "every reachable state" includes
C12_RegistryIffStreamLive ==
  Quiescent =>
    (active_streams <=> stream_state \in {"INITIALIZING", "READY", "LIVE"})

\* C13: for the camera, no two of Start, Stop and the health-initiated restart
\* are in progress at the same time
C13_FlowsSerialized ==
  Cardinality({f \in Flows : InProgress(f)}) <= 1

\* --------------------------------------------------- repeated requests
\* the state Start found holds the session of an earlier successful Start:
\* the registry entry, the Stream LIVE, and in the router the transport and
\* the producer that Start recorded in the Stream's metadata
FoundSession(found) ==
  /\ found.active
  /\ found.state = "LIVE"
  /\ found.metadata.producer_id \in found.producers
  /\ found.metadata.transport_id \in found.transports

\* C14: a Start that runs alone and finds the session of an earlier Start,
\* with its producer still in the router, returns reconnect=true, reports the
\* producer id and the transport id of that earlier Start, and leaves the
\* router, the pipeline and the rows as it found them
C14_SecondStartReconnects ==
  [][StartReturns("reconnect") /\ StartAlone /\ FoundSession(snapshot[1]) =>
       LET found == snapshot[1] IN
       /\ loc'["start"].response.producer = found.metadata.producer_id
       /\ loc'["start"].response.transport_id = found.metadata.transport_id
       /\ Observed' = found]_vars

\* a step with which stop_device_stream returns
StopReturns == pc["stop"] \notin Returned /\ pc'["stop"] \in Returned

\* C15: a Stop that runs alone right after a Stop that ran alone, returned
\* success and left no producer of the room in the router, leaves the
\* pipeline, the router, the rows and the monitor as it found them, and
\* returns success unless its own commit fails
C15_StopIdempotent ==
  [][StopReturns /\ Alone("stop")' /\ stops >= 1 /\ snapshot'[1].producers = {} =>
       /\ Observed' = snapshot'[1]
       /\ pc'["stop"] = "success" \/ pc["stop"] = "commit"]_vars

\* a second Stop has returned success after a Start made the Stream LIVE and a
\* first Stop stopped it
C15_Witness ==
  /\ stops = 2
  /\ pc["stop"] = "success"
  /\ Alone("stop")
  /\ snapshot[1].producers = {}
  /\ stream_state = "STOPPED"
  /\ router_producers = {}

\* ------------------------------------------------------ order of the steps
\* C19: in every Start and every restart, connect_plain_transport is issued
\* for the new transport only after create_producer on that transport has
\* completed: a flow that is about to connect, or has connected, holds the
\* producer the router created on its transport
C19_ProducerBeforeConnect ==
  \A f \in {"start", "restart"} :
    pc[f] \in {"connect", "ready"} =>
      /\ loc[f].transport # NoId
      /\ loc[f].producer = loc[f].transport

\* a restart has connected its transport, after a Start that went through the
\* same steps made the Stream LIVE
C19_Witness ==
  /\ pc["restart"] = "ready"
  /\ loc["restart"].producer \in router_producers
  /\ stream_state = "LIVE"

\* flow f passes asyncio.gather(capture_ssrc, start_ffmpeg_delayed): the capture
\* request is issued when the step begins, the transcoder is launched 200 ms later
Gathers(f) == pc[f] = "spawn" /\ pc'[f] \notin {"spawn", "cancelled"}

\* C20: in every Start and every restart, when the capture socket is bound on
\* the room's port no transcoder of the camera is transmitting RTP to that
\* port yet (a transcoder that runs sends its RTP to the room's port)
C20_CaptureBoundBeforeTransmit ==
  [][\A f \in {"start", "restart"} : Gathers(f) => running = {}]_vars

\* ------------------------------------------------- the router connection
\* a request frame is sent
Sends == nextReq' # nextReq

\* C16: no caller sends a request frame while another caller's request has
\* been sent and its reply has not yet been received
C16_OneRequestInFlight ==
  [][Sends => \A d \in Callers : caller[d].pc # "recv"]_vars

\* C17: every call that returns a reply returns the reply frame the router
\* produced for the request that call sent
C17_ReplyMatchesRequest ==
  \A c \in Callers : caller[c].pc = "done" => caller[c].got = caller[c].req

\* a request ends with an I/O error
FailsWithIOError(c) ==
  /\ caller[c].pc \in {"recv", "connecting"}
  /\ caller'[c].pc \in {"closed", "unavailable"}

\* C18: a request that fails with an I/O error leaves the client marked not
\* connected; a request called on a client that is not connected attempts to
\* connect before it sends anything; and when that connect fails the request
\* ends without a frame sent and without waiting for another attempt
C18_ReconnectBeforeSend ==
  [][\A c \in Callers :
       /\ FailsWithIOError(c) => ~connected'
       /\ (caller[c].pc = "idle" /\ caller'[c].pc # "idle" /\ ~connected)
            => caller'[c].pc = "connecting" /\ ~Sends
       /\ (caller[c].pc = "connecting" /\ caller'[c].pc = "unavailable")
            => ~Sends /\ caller'[c].req = NoId /\ ~connected']_vars

\* one request has failed with ConnectionClosed after its frame was sent, and
\* another, called on the client marked not connected, has ended on its failed
\* reconnect with no frame sent
C18_Witness ==
  \E c, d \in Callers :
    /\ caller[d].pc = "closed"
    /\ caller[d].req # NoId
    /\ caller[c].pc = "unavailable"
    /\ caller[c].req = NoId
    /\ ~connected

\* ------------------------------------------------------- Start's timeouts
\* C21: Start does not fail for want of RTP: with the transcoder running the
\* gather goes on to the transport whatever capture_ssrc returned (0 on a
\* timeout), the wait for the producer goes on to the rows whether it got
\* ready or not, and the Start that then returns success has made the Stream
\* LIVE and registered its producer with the health monitor
C21_TimeoutsDoNotFailStart ==
  [][/\ (pc["start"] = "ffmpeg_init" /\ loc["start"].proc \in running)
          => pc'["start"] \in {"ffmpeg_init", "transport", "cancelled"}
     /\ pc["start"] = "ready"
          => pc'["start"] \in {"ready", "db_read", "cancelled"}
     /\ StartReturns("success")
          => /\ stream_state' = "LIVE"
             /\ Has(hm'.last_packet_counts, loc["start"].producer)
             /\ Room \notin hm'.failed_streams]_vars

\* a Start has returned success with no SSRC captured and a producer that
\* received no packet
C21_Witness ==
  /\ pc["start"] = "success"
  /\ stream_state = "LIVE"
  /\ stream_metadata.ssrc = 0
  /\ stream_metadata.producer_id = loc["start"].response.producer
  /\ packets[loc["start"].response.producer] = 0
  /\ Has(hm.last_packet_counts, loc["start"].response.producer)

\* --------------------------------------------------- the FAILED verdict
\* a run of start_device_stream returns success, from the full sequence or as
\* a reconnect
StartRunSucceeds == pc["start"] = "idle" /\ pc'["start"] \in {"success", "reconnect"}

\* C22: after any successful Start, a reconnect included, the room's restart
\* attempts are 0 and the room is not in failed_streams
C22_SuccessfulStartClearsFailed ==
  [][StartRunSucceeds =>
       /\ Get(hm'.restart_attempts, Room, 0) = 0
       /\ Room \notin hm'.failed_streams]_vars

\* the step invokes the restart callback for the room: the handler stamps
\* _last_restart_time[room] just before it calls back
CallsBack ==
  /\ Has(hm'.last_restart_time, Room)
  /\ hm'.last_restart_time[Room] = 0
  /\ (~Has(hm.last_restart_time, Room) \/ hm.last_restart_time[Room] # 0)

\* C23: once the room is in failed_streams the monitor issues no restart
\* callback for it, and the room stays in failed_streams until a manual Start
\* succeeds: no other step takes it out
C23_FailedUntilManualStart ==
  [][(Room \in hm.failed_streams) =>
       /\ ~CallsBack
       /\ (Room \in hm'.failed_streams \/ StartRunSucceeds)]_vars

\* C24: the ports of two active sessions of distinct cameras differ
C24_PortsUnique ==
  \A c, d \in DOMAIN ffmpeg_ports :
    c # d => ffmpeg_ports[c] # ffmpeg_ports[d]

\* a step with which _cleanup_old_recordings ends
PrunePass == rpc = "cleanup" /\ rpc' = "sleep"

\* C25: a time-based prune pass removes every date directory older than the
\* retention period, leaves every other entry as it was, and reports as freed
\* the total size of the directories it removed
C25_PrunePassDeletesExpired ==
  [][PrunePass =>
       /\ DOMAIN recordings' = DOMAIN recordings \ Expired(recordings)
       /\ \A k \in DOMAIN recordings' : recordings'[k] = recordings[k]
       /\ freed_space' = TotalSize(recordings, Expired(recordings))]_vars

\* the step removes directory k in the emergency cleanup
EmergencyRemoves(k) ==
  rpc = "emergency" /\ k \in DOMAIN recordings /\ k \notin DOMAIN recordings'

\* C26: the emergency cleanup removes a date directory only while usage is
\* above the target and no older-dated directory that it could remove is left,
\* and its final report is critical when usage is still above the target
C26_EmergencyOldestFirst ==
  [][/\ \A k \in DOMAIN recordings :
          EmergencyRemoves(k) =>
            /\ IsDateDir(recordings, k)
            /\ Above(recordings, target)
            /\ \A older \in DateDirs(recordings) :
                 older[2] < k[2] => older \in failed_dirs
     /\ (rpc = "emergency" /\ rpc' # "emergency") =>
          (critical' <=> Above(recordings, target))]_vars

\* an emergency cleanup has removed a directory, reached its target and left
\* a newer directory in place
C26_Witness ==
  /\ rpc = "cleanup"
  /\ emergency_deleted >= 1
  /\ ~critical
  /\ DateDirs(recordings) # {}

\* disk usage below which the disk guard never prunes
EmergencyFloor == 80

\* C27: every segment on disk is younger than the retention period, or disk
\* usage without it is below the emergency floor
C27_KeptSegmentsYoung ==
  \A k \in DateDirs(recordings) :
    recordings[k].size > 0 =>
      \/ now - recordings[k].oldest < recording_retention_days * QuartersPerDay
      \/ (Used(recordings) - 1) * 100 < EmergencyFloor * DiskTotal

\* C28: a commit that changes Stream.state also adds an audit entry that
\* names the new state
C28_StateWriteAudited ==
  [][stream_state' # stream_state =>
       /\ Len(audit_rows') = Len(audit_rows) + 1
       /\ audit_rows'[Len(audit_rows')].to = stream_state']_vars

\* the step creates a router transport, a router consumer or a Consumer row
AttachCreates ==
  \/ webrtc_transports' \ webrtc_transports # {}
  \/ router_consumers' \ router_consumers # {}
  \/ Len(consumer_rows') > Len(consumer_rows)

\* the request has created nothing
CreatedNothing ==
  /\ attach.transport_id \notin webrtc_transports
  /\ attach.consumer_id \notin router_consumers
  /\ \A i \in DOMAIN consumer_rows :
       consumer_rows[i].mediasoup_consumer_id # attaches

\* the step with which the request gets its response
Answers == attach.pc # "done" /\ attach'.pc = "done"

\* C29: attach_consumer creates a transport, a consumer or a Consumer row
\* only after it found the stream LIVE with an ACTIVE producer; when it finds
\* the stream not LIVE, or no ACTIVE producer of a stream it found LIVE, it
\* answers 409 with retry_after_seconds and has created nothing
C29_AttachOnlyWhenLive ==
  [][/\ AttachCreates =>
          /\ attach.state = "LIVE"
          /\ attach.producer # NoId
     /\ (/\ Answers
         /\ \/ attach.pc = "stream" /\ stream_state \notin {"NONE", "LIVE"}
            \/ attach.pc = "any_producer")
          => /\ attach'.status_code = 409
             /\ attach'.retry_after_seconds > 0
             /\ CreatedNothing']_vars

\* C30: the refresh token is exchanged at most once, and no call of
\* refresh_access_token made after an exchange of it or after its revocation
\* returns new tokens
C30_RefreshTokenSingleUse ==
  /\ exchanges <= 1
  /\ \A r \in Refreshers : refresh[r].pc = "returned" => ~refresh[r].late

\* ------------------------------------------------------ stale producers
\* the check counts producer p stale: it increments p's stale counter
CountedStale(p) ==
  /\ Has(hm'.stale_counts, p)
  /\ hm'.stale_counts[p] = Get(hm.stale_counts, p, 0) + 1

\* the check classifies producer p unhealthy
ClassifiedUnhealthy(p) == \E i \in DOMAIN unhealthy' : unhealthy'[i] = p

\* C31: in each health check a producer the monitor knows is counted stale
\* exactly when its packets_received has not advanced since the previous
\* health check, and is classified unhealthy exactly when that was so in
\* stale_threshold or more checks in a row
C31_StaleCounting ==
  [][GotStatistics =>
       \A p \in router_producers :
         Has(hm.last_packet_counts, p) =>
           /\ CountedStale(p) <=> NotAdvanced(p)
           /\ ClassifiedUnhealthy(p) <=> stale_checks'[p] >= StaleThreshold]_vars

\* ------------------------------------------------ a restart that failed
\* the restart callback has just returned False (or raised) for the room: the
\* handler has stamped _last_restart_time and counted the attempt, and no
\* register_stream has reset the count
RestartFailed ==
  /\ since_callback = 0
  /\ Has(hm.last_restart_time, Room)
  /\ hm.last_restart_time[Room] = 0
  /\ Get(hm.restart_attempts, Room, 0) > 0

\* C32: after a health-initiated restart of the room that failed, the
\* monitor in the end issues another restart for the room or puts it in
\* failed_streams (or sees the room's packets advance again); the room is not
\* left with none of these
C32_FailedRestartRetriedOrFailed ==
  \A n \in 1..MaxRestartAttempts :
    (RestartFailed /\ callbacks = n) ~> (Room \in hm.failed_streams \/ callbacks # n)

\* ------------------------------------------------------- after a Stop
\* in SpecStopped: the Stop, the second and last request, has returned
StopReturned == calls = 2 /\ pc["start"] = "idle"

\* C33: after Stop has returned, and with no Start since, the monitor does
\* not invoke the restart callback for the room and no start_stream puts the
\* room back in active_streams, wherever between the monitor's steps the Stop
\* came
C33_NoRestartAfterStop ==
  [][StopReturned => ~CallsBack /\ (active_streams' => active_streams)]_vars

\* ------------------------------------------- the records after a restart
\* restart_stream_handler returns True
RestartReturnsTrue == pc["restart"] \notin Returned /\ pc'["restart"] = "true"

\* C34: whenever the restart handler returns True, the Stream row's metadata
\* and its ACTIVE Producer row hold the transport id, the producer id and the
\* ssrc of the producer this restart created in the router
C34_RestartRecordsNewProducer ==
  [][(RestartReturnsTrue /\ stream_state' # "NONE") =>
       /\ stream_metadata' = [transport_id |-> loc["restart"].transport,
                              producer_id |-> loc["restart"].producer,
                              ssrc |-> loc["restart"].ssrc]
       /\ ActiveRows(producer_rows') # {}
       /\ \A i \in ActiveRows(producer_rows') :
            /\ producer_rows'[i].pid = loc["restart"].producer
            /\ producer_rows'[i].ssrc = loc["restart"].ssrc]_vars

\* ------------------------------------------------- stop_stream's result
\* flow f is inside stop_stream, suspended at one of its awaits
InStopStream(f) == pc[f] \in {"ss_wait", "ss_sleep", "ss_get"}

\* an exception leaves stop_stream and ends the handler that called it
StopStreamRaises(f) == InStopStream(f) /\ pc'[f] \in {"error", "false"}

\* C35: stop_stream never raises, it returns True to its caller, also when
\* two calls of it for the room overlap
C35_StopStreamNeverRaises ==
  [][\A f \in Flows : ~StopStreamRaises(f)]_vars

\* --------------------------------------------------- one monitor loop
\* C36: at most one task runs _monitor_loop at any time (a task whose
\* cancellation is under way runs no further check and is not counted),
\* however start() and stop() are called
C36_OneMonitorLoop == Cardinality(loops \ cancelled) <= 1

\* ------------------------------------------------- the loop keeps pruning
\* the date directories no transcoder writes into that were older than the
\* retention period a full period of the loop ago: a pass has come since, or
\* the loop is late
Overdue(rec) ==
  LET cutoff_date == now - recording_retention_days * QuartersPerDay
  IN {k \in DateDirs(rec) : ~Busy(k) /\ strptime(k[2]) < cutoff_date - 1}

\* C37: while the service runs the retention loop makes a pass every 6 hours,
\* so that no date directory older than the retention period outlasts a
\* period of the loop on disk
C37_RetentionLoopKeepsPruning == monitor_running => Overdue(recordings) = {}

\* C38: a time-based prune pass leaves in place the date directory that a
\* running transcoder writes its segments into
C38_PruneSparesBusyDirectory ==
  [][PrunePass =>
       \A k \in DOMAIN recordings : Busy(k) => k \in DOMAIN recordings']_vars

\* C39: an error on one directory ends neither pass: the time-based pass
\* still removes every other date directory older than the retention period,
\* and the emergency cleanup goes on to the next directory of its list
C39_PassesSurviveErrors ==
  [][/\ PrunePass =>
          \A k \in Expired(recordings) :
            ~Busy(k) => k \notin DOMAIN recordings'
     /\ (rpc = "emergency" /\ failed_dirs' \ failed_dirs # {}) =>
          rpc' = "emergency"]_vars

\* C40: a capture that received a datagram of at least 12 bytes returns the
\* big-endian unsigned 32-bit value of its bytes 8..11, a capture that timed
\* out or received a shorter datagram returns the failure result, and a
\* capture that returns after its bind has closed its socket
C40_SsrcCapture ==
  capture.pc = "returned" =>
    /\ (capture.outcome = "datagram" /\ Len(data) >= 12) =>
         detected_ssrc =
           UInt32(data[9] * 256 + data[10], data[11] * 256 + data[12])
    /\ (\/ capture.outcome = "timeout"
        \/ capture.outcome = "datagram" /\ Len(data) < 12) =>
         detected_ssrc = NoSsrc
    /\ capture.bound => sock = "closed"

\* a capture with the temporary FFmpeg has returned the SSRC 0xFF010001 of a
\* 13-byte datagram and closed its socket
C40_Witness ==
  /\ capture.pc = "returned"
  /\ capture.fn = "capture_ssrc_with_temp_ffmpeg"
  /\ capture.outcome = "datagram"
  /\ Len(data) = 13
  /\ <<data[9], data[10], data[11], data[12]>> = <<255, 1, 0, 1>>
  /\ detected_ssrc = UInt32(65281, 1)
  /\ sock = "closed"
====
